---- MODULE Spec2Model ----
(***************************************************************************)
(* Model of the asynchronous click pipeline of url-shortener               *)
(* (internal/service/click_processor.go): the buffered click channel, the  *)
(* non-blocking RecordClick, the worker goroutines with their              *)
(* lookup / persist / backoff loop, and the Start / Stop lifecycle; and of *)
(* its rate limiter (package middleware): the map of visitors, one token   *)
(* bucket per key, the two middlewares and the cleanup loop; of the link   *)
(* service (internal/service/link_service.go) with its table and its       *)
(* cache, and the Redirect handler; and of the API key middleware.         *)
(*                                                                         *)
(* The two repositories (linkRepo.GetLinkIDByShortCode and                 *)
(* clickRepo.RecordClick) are external ports: a call that is in progress   *)
(* returns success or failure, chosen by the environment, and fails if its *)
(* context is done.                                                        *)
(*                                                                         *)
(* Spec is the pipeline with the limiter idle; FairSpec is the pipeline of *)
(* one worker with Stop called again on the stopped pool, the worker and   *)
(* wg.Wait() taking the steps they can take; OrderSpec is the pipeline     *)
(* with one worker or all of them; DeadlineSpec and ClockSpec are the      *)
(* running pool with the deadline of processClick and, of one worker, with *)
(* the clock; BucketSpec is the default middleware in front of the         *)
(* pipeline, serving one client address; LimiterSpec is both middlewares   *)
(* on one limiter, with no workers; SweepSpec is the default middleware on *)
(* a limiter whose cleanup loop keeps up with its ticker; LinkSpec is the  *)
(* link service and the Redirect handler under concurrent calls; AuthSpec  *)
(* is the API key middleware serving one request.                          *)
(***************************************************************************)
EXTENDS Bags, FiniteSets, Integers, Naturals, Sequences, TLC

(* ---- bounds of the model ---------------------------------------------- *)
\* capacity of clickChannel; stands for defaultChannelBuffer (1000)
QueueCap == 1
\* number of worker goroutines; stands for defaultWorkerCount (3)
NumWorkers == 2
\* number of RecordClick calls made over one behaviour
MaxEvents == 2
\* number of Start calls made over one behaviour
MaxStarts == 2

\* number of requests that can be inside the limiter middleware, or inside
\* the link service, at once
MaxInFlight == 2
\* the clock stops at this instant (in ticks)
MaxTime == 4
\* the same for the limiter whose cleanup keeps up with its ticker
MaxSweepTime == 8
\* number of requests made over one behaviour of the limiter with two keys
MaxRequests == 3
\* number of requests beyond the burst size made over one behaviour of the
\* limiter with one key
MaxOverBurst == 2
\* number of calls made to the link service and the Redirect handler over
\* one behaviour
MaxCalls == 3
\* the clock of the pipeline stops at this instant (in ticks)
MaxClock == 1

(* ---- program constants ------------------------------------------------ *)
maxRetries == 3
\* time.Second, in clock ticks: durations are whole numbers of ticks, and a
\* bucket counts its tokens in units of 1 / TicksPerSecond of a token, so
\* that a limit of r tokens per second refills r units per tick
TicksPerSecond == 2

Workers == 1..NumWorkers
EventIds == 1..MaxEvents
ShortCodes == {"a", "b"}
\* the short code requested by the n-th redirect (two codes, so that events
\* of the same link and of different links both occur)
CodeOf(n) == IF n % 2 = 1 THEN "a" ELSE "b"
NoEvent == [id |-> 0, code |-> ""]

VARIABLES
    clickChannel,   \* [buf: queued events in FIFO order, cap: capacity]
    workerCount,    \* p.workerCount
    ctxDone,        \* p.ctx: "nil" before Start, then "live" or "cancelled"
    wg,             \* p.wg counter
    pc,             \* per worker: position in worker / processClick
    held,           \* per worker: the event it received (NoEvent if none)
    attempt,        \* per worker: loop variable i of the retry loop
    caller,         \* lifecycle caller: "new", "running", "stopping", "stopped"
    starts,         \* number of Start calls so far
    nextId,         \* number of RecordClick calls so far
    lastDone,       \* whether the caller's context was cancelled at the
                    \* latest RecordClick call
    hist,           \* per event id: what has happened to that event
    logs,           \* bag of log records written through p.logger
    expired,        \* per worker: whether the deadline of the context of its
                    \* processClick call has passed
    click,          \* per worker: the record processClick has built
    atCancel        \* snapshot of the shutdown in progress: taken (p.cancel()
                    \* has run), resident (ids queued at that moment), busy
                    \* (workers inside processClick at that moment), inhand
                    \* (ids of the events they were processing), late
                    \* (RecordClick has been called since Stop returned);
                    \* and leftover, the ids StartNoting found in the
                    \* channel of the stopped pool

\* the rate limiter (package middleware) and the requests passing through it
VARIABLES
    config,         \* rl.config
    visitors,       \* rl.visitors: a map from the keys seen to visitors
    limiters,       \* the rate.Limiter objects in existence, by identity
    track,          \* per rate.Limiter object: what has happened to it
    now,            \* the clock, in ticks
    tickerC,        \* ticks waiting in ticker.C (a channel of capacity 1)
    inflight,       \* bag of the requests for which getLimiter has
                    \* returned and limiter.Allow() is about to be called
    resp,           \* what the middleware did with the latest request
    quota,          \* number of requests still to come
    swept,          \* keys deleted by cleanup passes at the current instant
    unswept         \* the visitors as they would be had no cleanup pass
                    \* ever run: per key ever seen, the state of its one
                    \* limiter and its lastSeen

\* the link service (internal/service/link_service.go), its two repositories
\* and the calls in progress
VARIABLES
    links,          \* the rows of table links: the link repository
    cache,          \* the cache repository: a map from short codes to links
    nextID,         \* the id the next inserted row gets (id SERIAL)
    calls,          \* bag of the service calls in progress
    ret,            \* what the latest call to return has returned
    deleted         \* the short codes whose DeleteLink returned nil (the
                    \* cache having answered, and no CreateLink of that code
                    \* having run during the call), no link with that code
                    \* having been inserted since

\* the API key middleware (internal/middleware/apikey.go) and the request
\* passing through it
VARIABLES
    ak,             \* the APIKey object: ak.config
    gctx            \* the gin.Context of the request: what the request
                    \* carries, the keys set on the context, the answer

clickVars == <<clickChannel, workerCount, ctxDone, wg, pc, held, attempt,
               caller, starts, nextId, lastDone, hist, logs, expired, click,
               atCancel>>

limiterVars == <<config, visitors, limiters, track, now, tickerC, inflight,
                 resp, quota, swept, unswept>>

\* the limiter without the count of the requests still to come
rateVars == <<config, visitors, limiters, track, now, tickerC, inflight,
              resp, swept, unswept>>

linkVars == <<links, cache, nextID, calls, ret, deleted>>

authVars == <<ak, gctx>>

vars == <<clickChannel, workerCount, ctxDone, wg, pc, held, attempt, caller,
          starts, nextId, lastDone, hist, logs, expired, click, atCancel,
          config, visitors, limiters, track, now, tickerC, inflight,
          resp, quota, swept, unswept,
          links, cache, nextID, calls, ret, deleted,
          ak, gctx>>

\* result: what RecordClick returned; receives: dequeues of the event (each
\* starts one lookup call); lookup: how the lookup returned; attempts:
\* clickRepo.RecordClick calls made; fails / succ: those that returned an
\* error / nil; waits: the backoff sleeps taken, in milliseconds; outcome:
\* how processClick ended; at: the instant of the RecordClick call; err:
\* what the latest call of a repository for the event returned; cut: the
\* calls that returned context.DeadlineExceeded; records: the click records
\* given to clickRepo.RecordClick
NoHist ==
    [result |-> "none", receives |-> 0,
     lookup |-> "none", attempts |-> 0, fails |-> 0, succ |-> 0,
     waits |-> <<>>, outcome |-> "none",
     at |-> 0, err |-> "nil", cut |-> 0, records |-> {}]

\* models.Click: the fields IPAddress, UserAgent, Referer and Country are
\* copied from the event as ShortCode is
Click(linkID, shortCode, clickedAt) ==
    [LinkID |-> linkID, ShortCode |-> shortCode, ClickedAt |-> clickedAt]

\* no record built
NoClick == Click(0, "", 0)

\* the id of the row of table links with that short code
LinkIDOf(code) == IF code = "a" THEN 1 ELSE 2

\* a record written at Info level or above (the logger of main is
\* zap.NewProduction, which discards Debug records); ev is the id of the
\* event the record is about, 0 if none; error: the error the record
\* carries, "nil" if none
LogRec(level, msg, code, ev) ==
    [level |-> level, msg |-> msg, short_code |-> code, ev |-> ev,
     error |-> "nil"]

\* a record with field zap.Error(err); zap.Error(nil) adds no field, which
\* is error "nil"
WithError(rec, err) == [rec EXCEPT !.error = err]

Log_Discard(rec) == logs

Log(rec) == logs (+) SetToBag({rec})

(* ---- construction -------------------------------------------------------*)
\* the pool with that many workers and that channel capacity; the
\* constructor takes both from constants
NewClickProcessorOf(workers, buffer) ==
    /\ clickChannel = [buf |-> <<>>, cap |-> buffer]
    /\ workerCount = workers
    /\ ctxDone = "nil"
    /\ wg = 0
    /\ pc = [w \in Workers |-> "none"]
    /\ held = [w \in Workers |-> NoEvent]
    /\ attempt = [w \in Workers |-> 0]

NewClickProcessor == NewClickProcessorOf(NumWorkers, QueueCap)

\* nothing has been called yet
NothingCalled ==
    /\ caller = "new"
    /\ starts = 0
    /\ nextId = 0
    /\ lastDone = FALSE
    /\ hist = [e \in EventIds |-> NoHist]
    /\ logs = EmptyBag
    /\ expired = [w \in Workers |-> FALSE]
    /\ click = [w \in Workers |-> NoClick]
    /\ atCancel = [taken |-> FALSE, resident |-> {}, busy |-> 0, inhand |-> {},
                    late |-> FALSE, leftover |-> {}]

ClickInit ==
    /\ NewClickProcessor
    /\ NothingCalled

(* ---- the rate limiter: configuration and construction --------------------*)
\* c.ClientIP() of the requests
Addrs == {"ip1"}
\* what a custom getKey returns: nothing, or a user id
UserKeys == {"", "u1"}
Keys == Addrs \cup UserKeys
\* identities of rate.Limiter objects: at most one per key in the map, and
\* one per request that still holds a limiter already deleted from the map
LimIds == 1..(Cardinality(Keys) + MaxInFlight)

\* the handler behind the limiter: the redirect handler, which submits a
\* click event, or one that does not touch the click pipeline
Routes == {"redirect", "health"}

\* RateLimiterConfig: tokens per second, bucket size, cleanup interval in
\* ticks (one second; half a second, which is less than a whole second)
Configs ==
    {[RequestsPerSecond |-> 5, BurstSize |-> 5, CleanupInterval |-> 2],
     [RequestsPerSecond |-> 1, BurstSize |-> 2, CleanupInterval |-> 1]}

\* the configurations of the limiter with two keys
SmallConfigs ==
    {[RequestsPerSecond |-> 1, BurstSize |-> 1, CleanupInterval |-> 1],
     [RequestsPerSecond |-> 5, BurstSize |-> 2, CleanupInterval |-> 2]}

\* a bucket that three cleanup intervals do not refill (one token in two
\* ticks, three tokens, cleanup every tick), and one cleaned up every
\* second tick
SweepConfigs ==
    {[RequestsPerSecond |-> 1, BurstSize |-> 3, CleanupInterval |-> 1],
     [RequestsPerSecond |-> 1, BurstSize |-> 1, CleanupInterval |-> 2]}

\* 10 requests per second, bursts of 20, cleanup every minute
DefaultRateLimiterConfig ==
    [RequestsPerSecond |-> 10, BurstSize |-> 20,
     CleanupInterval |-> 60 * TicksPerSecond]

\* the map without keys
EmptyMap == <<>>
NoResp == [status |-> 0, retry_after |-> -1, aborted |-> FALSE, next |-> FALSE]

\* key: the key the limiter was created for; evicted: cleanup has deleted
\* its visitor; first: no check was made on it before the current instant;
\* winK: the whole tokens it held when the first check of the current
\* instant came; winN, winA: the checks made and allowed at the current
\* instant (winN counts up to winK + 1); phase: "rejected" if its latest
\* check was refused, "refilled" if a check of the current instant was
\* allowed after a refused one and a wait of at least 1 / limit seconds,
\* else "clean"; since: the ticks since that refusal (counted up to
\* TicksPerSecond)
NewTrack(key) ==
    [key |-> key, evicted |-> FALSE, first |-> TRUE, winK |-> 0, winN |-> 0,
     winA |-> 0, phase |-> "clean", since |-> 0]

NewRateLimiter(cfg) ==
    /\ config = cfg
    /\ visitors = EmptyMap
    /\ limiters = EmptyMap
    /\ track = EmptyMap
    /\ now = 0
    /\ tickerC = 0
    /\ inflight = EmptyBag
    /\ resp = NoResp
    /\ swept = {}
    /\ unswept = EmptyMap

(* ---- the link service: construction -------------------------------------*)
\* input.OriginalURL of the CreateLink calls (well-formed URLs)
Urls == {"x", "y"}

\* models.Link (links are created without ExpiresIn: they do not expire)
Link(id, code, url) == [ID |-> id, ShortCode |-> code, OriginalURL |-> url]

\* the nil *models.Link
NoLink == Link(0, "", "")

\* op: the operation that returned; err: the error it returned ("nil" if
\* none); link: the link it returned; custom, retried, stale: as in the
\* call;
\* status, location: the HTTP answer, for the Redirect handler
NoRet ==
    [op |-> "none", code |-> "", err |-> "nil", link |-> NoLink,
     custom |-> FALSE, retried |-> FALSE, stale |-> FALSE,
     status |-> 0, location |-> ""]

\* NewLinkService over an empty table and an empty cache
NewLinkService ==
    /\ links = {}
    /\ cache = EmptyMap
    /\ nextID = 1
    /\ calls = EmptyBag
    /\ ret = NoRet
    /\ deleted = {}

(* ---- the API key middleware: construction --------------------------------*)
\* strings are sequences of characters
Empty == <<>>
XAPIKey == <<"X", "-", "A", "P", "I", "-", "K", "e", "y">>
TestKey1 == <<"k", "1">>
TestKey2 == <<"k", "2">>
BadKey == <<"n", "o">>
Bearer == <<"B", "e", "a", "r", "e", "r", " ">>
Basic == <<"B", "a", "s", "i", "c", " ">>
LowerBearer == <<"b", "e", "a", "r", "e", "r", " ">>

\* ValidKeys: two keys and their names
ValidKeys == (TestKey1 :> "Test Key 1") @@ (TestKey2 :> "Test Key 2")

\* APIKeyConfig
APIKeyConfig(header, optional) ==
    [ValidKeys |-> ValidKeys, HeaderName |-> header, Optional |-> optional]

DefaultAPIKeyConfig == [HeaderName |-> XAPIKey, Optional |-> FALSE]

\* NewAPIKey(config): an empty HeaderName becomes the default one
NewAPIKey(cfg) ==
    IF cfg.HeaderName = Empty
    THEN [config |-> [cfg EXCEPT !.HeaderName = DefaultAPIKeyConfig.HeaderName]]
    ELSE [config |-> cfg]

\* a request as it reaches the middleware: the value of header X-API-Key,
\* of query parameter api_key and of header Authorization; nothing set on
\* the context, nothing answered, no handler run
NewContext(header, query, authorization) ==
    [header |-> (XAPIKey :> header), query |-> query,
     authorization |-> authorization,
     keys |-> EmptyMap, status |-> 0, error |-> "", aborted |-> FALSE,
     next |-> FALSE, pc |-> "start"]

\* no middleware, no request
NoAPIKey ==
    /\ ak = NewAPIKey(APIKeyConfig(XAPIKey, FALSE))
    /\ gctx = [NewContext(Empty, Empty, Empty) EXCEPT !.pc = "none"]

Init ==
    /\ ClickInit
    /\ NewRateLimiter(DefaultRateLimiterConfig)
    /\ NewLinkService
    /\ NoAPIKey
    /\ quota = 0

(* ---- Start / Stop -------------------------------------------------------*)
\* Start: a fresh cancellable context, then one goroutine per worker.
\* Called on a pool that is not running (a second Start on a running pool
\* is not guarded by the code and is not exercised here).
Start_AddOnce ==
    /\ caller \in {"new", "stopped"}
    /\ starts < MaxStarts
    /\ starts' = starts + 1
    /\ ctxDone' = "live"
    /\ logs' = Log(LogRec("info", "start", "", 0))
    /\ wg' = wg + 1
    /\ pc' = [w \in Workers |-> IF w <= workerCount THEN "select" ELSE pc[w]]
    /\ caller' = "running"
    /\ atCancel' = [taken |-> FALSE, resident |-> {}, busy |-> 0, inhand |-> {},
                    late |-> FALSE,
                    leftover |-> {}]
    /\ UNCHANGED <<clickChannel, workerCount, held, attempt, nextId, lastDone,
                   hist, expired, click>>

StartOf(found) ==
    /\ caller \in {"new", "stopped"}
    /\ starts < MaxStarts
    /\ starts' = starts + 1
    /\ ctxDone' = "live"
    /\ logs' = Log(LogRec("info", "start", "", 0))
    /\ wg' = wg + workerCount
    /\ pc' = [w \in Workers |-> IF w <= workerCount THEN "select" ELSE pc[w]]
    /\ caller' = "running"
    /\ atCancel' = [taken |-> FALSE, resident |-> {}, busy |-> 0, inhand |-> {},
                    late |-> FALSE,
                    leftover |-> found]
    /\ UNCHANGED <<clickChannel, workerCount, held, attempt, nextId, lastDone,
                   hist, expired, click>>

Start == StartOf({})

\* Start, the events it finds in the channel of a stopped pool noted
StartNoting ==
    StartOf(IF caller = "stopped"
            THEN {clickChannel.buf[k].id : k \in 1..Len(clickChannel.buf)}
            ELSE {})

\* Stop, first half: log, then p.cancel().
StopCancel ==
    /\ caller = "running"
    /\ ctxDone' = "cancelled"
    /\ logs' = Log(LogRec("info", "stopping", "", 0))
    /\ caller' = "stopping"
    /\ atCancel' = [taken |-> TRUE,
                    resident |-> {clickChannel.buf[k].id :
                                    k \in 1..Len(clickChannel.buf)},
                    busy |-> Cardinality({w \in Workers : pc[w] # "select"}),
                    inhand |-> {held[w].id : w \in Workers} \ {0},
                    late |-> FALSE, leftover |-> {}]
    /\ UNCHANGED <<clickChannel, workerCount, wg, pc, held, attempt, starts,
                   nextId, lastDone, hist, expired, click>>

WaitDone_NoWait(n) == TRUE

\* p.wg.Wait() returns when the counter is zero
WaitDone(n) == n = 0

\* Stop, second half: p.wg.Wait() returns, then log.
StopWait ==
    /\ caller = "stopping"
    /\ WaitDone(wg)
    /\ logs' = Log(LogRec("info", "stopped", "", 0))
    /\ caller' = "stopped"
    /\ UNCHANGED <<clickChannel, workerCount, ctxDone, wg, pc, held, attempt,
                   starts, nextId, lastDone, hist, expired, click, atCancel>>

\* Stop on a pool already stopped: p.cancel() again (nothing happens), and
\* p.wg.Wait() returns at once, the counter being zero; the two records
\* are written.  One such call is made per Start at most.
StopAgain ==
    /\ caller = "stopped"
    /\ WaitDone(wg)
    /\ CopiesIn(LogRec("info", "stopped", "", 0), logs) < 2 * starts
    /\ logs' = logs (+) SetToBag({LogRec("info", "stopping", "", 0)})
                    (+) SetToBag({LogRec("info", "stopped", "", 0)})
    /\ UNCHANGED <<clickChannel, workerCount, ctxDone, wg, pc, held, attempt,
                   caller, starts, nextId, lastDone, hist, expired, click,
                   atCancel>>

(* ---- the channel --------------------------------------------------------*)
SendReady_OffByOne(ch) == Len(ch.buf) <= ch.cap

\* the send case of a select is ready when the buffer has a free slot
SendReady(ch) == Len(ch.buf) < ch.cap

Enqueue_Lost(ch, ev) == ch

Enqueue(ch, ev) == [ch EXCEPT !.buf = Append(@, ev)]

RecvReady_NoneWaiting(ch) ==
    /\ Len(ch.buf) > 0
    /\ \A w \in Workers : pc[w] \notin {"persist", "sleep"}

\* the receive case of a select is ready when the buffer is not empty
RecvReady(ch) == Len(ch.buf) > 0

Recv_Newest(ch) == ch.buf[Len(ch.buf)]

\* the value a receive takes: the one that has been in the buffer longest
Recv(ch) == Head(ch.buf)

Dequeue_Keep(ch) == ch

Dequeue(ch) == [ch EXCEPT !.buf = Tail(@)]

CtxDoneReady_PoolCtx(done) == ctxDone = "cancelled"

\* the case <-ctx.Done() of RecordClick's select is ready when the context
\* passed by the caller is cancelled
CtxDoneReady(done) == done

(* ---- RecordClick: the non-blocking submit -------------------------------*)
\* One select over <-ctx.Done(), the channel send and default.  `done` is
\* the state of the caller's own context (the request context).  Go picks
\* among the ready cases at random and takes default only when none is
\* ready.
RecordClick(code, done) ==
    /\ nextId < MaxEvents
    /\ nextId' = nextId + 1
    /\ lastDone' = done
    /\ atCancel' = [atCancel EXCEPT !.late = @ \/ caller = "stopped"]
    /\ LET id == nextId + 1
           ev == [id |-> id, code |-> code]
           h  == [hist[id] EXCEPT !.at = now]
       IN  \/ /\ CtxDoneReady(done)                     \* case <-ctx.Done()
              /\ hist' = [hist EXCEPT ![id] = [h EXCEPT !.result = "ctx_err"]]
              /\ UNCHANGED <<clickChannel, logs>>
           \/ /\ SendReady(clickChannel)         \* case p.clickChannel <- event
              /\ clickChannel' = Enqueue(clickChannel, ev)
              /\ hist' = [hist EXCEPT ![id] = [h EXCEPT !.result = "accepted"]]
              /\ UNCHANGED logs
           \/ /\ ~CtxDoneReady(done)                    \* default
              /\ ~SendReady(clickChannel)
              /\ logs' = Log(LogRec("warn", "channel_full", ev.code, id))
              /\ hist' = [hist EXCEPT ![id] = [h EXCEPT !.result = "dropped"]]
              /\ UNCHANGED clickChannel
    /\ UNCHANGED <<workerCount, ctxDone, wg, pc, held, attempt, caller,
                   starts, expired, click>>

(* ---- worker -------------------------------------------------------------*)
\* select, case <-p.ctx.Done(): return, deferred wg.Done()
WorkerStop(w) ==
    /\ pc[w] = "select"
    /\ ctxDone = "cancelled"
    /\ pc' = [pc EXCEPT ![w] = "exited"]
    /\ wg' = wg - 1
    /\ UNCHANGED <<clickChannel, workerCount, ctxDone, held, attempt, caller,
                   starts, nextId, lastDone, hist, logs, expired, click,
                   atCancel>>

\* select, case event := <-p.clickChannel: processClick(event) begins, its
\* context is made with a deadline five seconds away, and the lookup call
\* is made.  The channel is never closed, so ok is true.
WorkerReceive(w) ==
    /\ pc[w] = "select"
    /\ RecvReady(clickChannel)
    /\ LET ev == Recv(clickChannel)
       IN  /\ held' = [held EXCEPT ![w] = ev]
           /\ hist' = [hist EXCEPT ![ev.id].receives = @ + 1]
    /\ clickChannel' = Dequeue(clickChannel)
    /\ pc' = [pc EXCEPT ![w] = "lookup"]
    /\ UNCHANGED <<workerCount, ctxDone, wg, attempt, caller, starts, nextId,
                   lastDone, logs, expired, click, atCancel>>

\* the errors of the two ports, and nil
Errors == {"nil", "lookup_err", "persist_err", "canceled", "deadline_exceeded"}

\* the variable err of processClick past the lookup's check: the lookup
\* returned nil.  The err of `if err := p.clickRepo.RecordClick(...)` is
\* another variable, scoped to that if statement, so the Error record
\* after the loop is given this one.
ErrAfterLookup == "nil"

RetryLoopContinues_OffByOne(i) == i <= maxRetries

\* the retry loop's condition, for i := 0; i < maxRetries; i++
RetryLoopContinues(i) == i < maxRetries

\* the backoff is taken after a failed attempt that is not the last
ShouldBackoff(i) == i < maxRetries - 1

BackoffMs_FromZero(i) == i * 100

\* the sleep after failed attempt i: time.Duration(i+1) * 100 * time.Millisecond
BackoffMs(i) == (i + 1) * 100

ReturnToLoop_Exit(w) ==
    /\ pc' = [pc EXCEPT ![w] = "exited"]
    /\ held' = [held EXCEPT ![w] = NoEvent]
    /\ click' = [click EXCEPT ![w] = NoClick]
    /\ expired' = [expired EXCEPT ![w] = FALSE]

\* processClick returns to the worker loop: its context and its record are
\* no more
ReturnToLoop(w) ==
    /\ pc' = [pc EXCEPT ![w] = "select"]
    /\ held' = [held EXCEPT ![w] = NoEvent]
    /\ click' = [click EXCEPT ![w] = NoClick]
    /\ expired' = [expired EXCEPT ![w] = FALSE]

\* ctx.Err() of the context of w's processClick call, a child of p.ctx
\* with a deadline
CtxErr(w) ==
    IF expired[w] THEN "deadline_exceeded"
    ELSE IF ctxDone = "cancelled" THEN "canceled"
    ELSE "nil"

CanSucceed_Always(w) == TRUE

\* a call of a repository (pgx) given a context that is done returns the
\* context's error
CanSucceed(w) == CtxErr(w) = "nil"

\* the error a failing call of w returns: the context's, or the
\* repository's own
Failure(w, own) == IF CtxErr(w) # "nil" THEN CtxErr(w) ELSE own

\* h after a call of w has returned err
Returns(h, err) ==
    [h EXCEPT !.err = err,
              !.cut = @ + (IF err = "deadline_exceeded" THEN 1 ELSE 0)]

\* top of the retry loop with loop variable i and the record c: either the
\* next clickRepo.RecordClick(ctx, c) call is made, or the loop is left and
\* the error record is written
LoopTop(w, i, h, c) ==
    LET ev == held[w] IN
    IF RetryLoopContinues(i)
    THEN /\ attempt' = [attempt EXCEPT ![w] = i]
         /\ hist' = [hist EXCEPT ![ev.id] =
                        [h EXCEPT !.attempts = @ + 1,
                                  !.records = @ \cup {c}]]
         /\ pc' = [pc EXCEPT ![w] = "persist"]
         /\ click' = [click EXCEPT ![w] = c]
         /\ UNCHANGED <<held, logs, expired>>
    ELSE /\ attempt' = [attempt EXCEPT ![w] = i]
         /\ hist' = [hist EXCEPT ![ev.id] = [h EXCEPT !.outcome = "exhausted"]]
         /\ logs' = Log(WithError(
                         LogRec("error", "record_failed", ev.code, ev.id),
                         ErrAfterLookup))
         /\ ReturnToLoop(w)

ClickedAt_Submission(ev) == hist[ev.id].at

\* ClickedAt: time.Now(), when the record for event ev is built
ClickedAt(ev) == now

LookupReturn_NoReturn(w, ok) ==
    /\ pc[w] = "lookup"
    /\ ok => CanSucceed(w)
    /\ LET ev == held[w] IN
       IF ok
       THEN LoopTop(w, 0,
                    Returns([hist[ev.id] EXCEPT !.lookup = "ok"], "nil"),
                    Click(LinkIDOf(ev.code), ev.code, ClickedAt(ev)))
       ELSE LET err == Failure(w, "lookup_err") IN
            /\ logs' = Log(WithError(
                            LogRec("warn", "lookup_failed", ev.code, ev.id),
                            err))
            /\ hist' = [hist EXCEPT ![ev.id] =
                            [Returns(@, err) EXCEPT !.lookup = "err",
                                                    !.attempts = @ + 1]]
            /\ attempt' = [attempt EXCEPT ![w] = 0]
            /\ pc' = [pc EXCEPT ![w] = "persist"]
            /\ UNCHANGED <<held, expired, click>>
    /\ UNCHANGED <<clickChannel, workerCount, ctxDone, wg, caller, starts,
                   nextId, lastDone, atCancel>>

\* linkRepo.GetLinkIDByShortCode returns: on an error the warning is
\* written and processClick returns; else the click record is built, with
\* the link id returned and the time it is now, and the retry loop begins
LookupReturn(w, ok) ==
    /\ pc[w] = "lookup"
    /\ ok => CanSucceed(w)
    /\ LET ev == held[w] IN
       IF ok
       THEN LoopTop(w, 0,
                    Returns([hist[ev.id] EXCEPT !.lookup = "ok"], "nil"),
                    Click(LinkIDOf(ev.code), ev.code, ClickedAt(ev)))
       ELSE LET err == Failure(w, "lookup_err") IN
            /\ logs' = Log(WithError(
                            LogRec("warn", "lookup_failed", ev.code, ev.id),
                            err))
            /\ hist' = [hist EXCEPT ![ev.id] =
                            [Returns(@, err) EXCEPT !.lookup = "err",
                                                    !.outcome = "lookup_failed"]]
            /\ ReturnToLoop(w)
            /\ UNCHANGED attempt
    /\ UNCHANGED <<clickChannel, workerCount, ctxDone, wg, caller, starts,
                   nextId, lastDone, atCancel>>

\* clickRepo.RecordClick returns from attempt i = attempt[w]
PersistReturn(w, ok) ==
    /\ pc[w] = "persist"
    /\ ok => CanSucceed(w)
    /\ LET ev == held[w]
           i  == attempt[w]
       IN  IF ok
           THEN /\ hist' = [hist EXCEPT ![ev.id] =
                               [Returns(@, "nil") EXCEPT
                                    !.succ = @ + 1,
                                    !.outcome = "persisted"]]
                /\ ReturnToLoop(w)
                /\ UNCHANGED <<attempt, logs>>
           ELSE LET h == [Returns(hist[ev.id], Failure(w, "persist_err"))
                            EXCEPT !.fails = @ + 1] IN
                IF ShouldBackoff(i)
                THEN /\ hist' = [hist EXCEPT ![ev.id] =
                                    [h EXCEPT !.waits = Append(@, BackoffMs(i))]]
                     /\ pc' = [pc EXCEPT ![w] = "sleep"]
                     /\ UNCHANGED <<held, attempt, logs, expired, click>>
                ELSE LoopTop(w, i + 1, h, click[w])
    /\ UNCHANGED <<clickChannel, workerCount, ctxDone, wg, caller, starts,
                   nextId, lastDone, atCancel>>

\* time.Sleep((i+1) * 100ms) returns, then i++
BackoffWake(w) ==
    /\ pc[w] = "sleep"
    /\ LoopTop(w, attempt[w] + 1, hist[held[w].id], click[w])
    /\ UNCHANGED <<clickChannel, workerCount, ctxDone, wg, caller, starts,
                   nextId, lastDone, atCancel>>

\* the deadline of the context of w's processClick call passes, five
\* seconds after the call began: a call of a repository can take that
\* long, the backoff sleeps cannot (300 ms in all)
Timeout(w) ==
    /\ pc[w] \in {"lookup", "persist", "sleep"}
    /\ ~expired[w]
    /\ ctxDone = "live"
    /\ expired' = [expired EXCEPT ![w] = TRUE]
    /\ UNCHANGED <<clickChannel, workerCount, ctxDone, wg, pc, held, attempt,
                   caller, starts, nextId, lastDone, hist, logs, click,
                   atCancel>>

(* ---- specification ------------------------------------------------------*)
Next ==
    \/ Start /\ UNCHANGED <<limiterVars, linkVars, authVars>>
    \/ StopCancel /\ UNCHANGED <<limiterVars, linkVars, authVars>>
    \/ StopWait /\ UNCHANGED <<limiterVars, linkVars, authVars>>
    \/ \E done \in BOOLEAN : RecordClick(CodeOf(nextId + 1), done) /\ UNCHANGED <<limiterVars, linkVars, authVars>>
    \/ \E w \in Workers : WorkerStop(w) /\ UNCHANGED <<limiterVars, linkVars, authVars>>
    \/ \E w \in Workers : WorkerReceive(w) /\ UNCHANGED <<limiterVars, linkVars, authVars>>
    \/ \E w \in Workers, ok \in BOOLEAN : LookupReturn(w, ok) /\ UNCHANGED <<limiterVars, linkVars, authVars>>
    \/ \E w \in Workers, ok \in BOOLEAN : PersistReturn(w, ok) /\ UNCHANGED <<limiterVars, linkVars, authVars>>
    \/ \E w \in Workers : BackoffWake(w) /\ UNCHANGED <<limiterVars, linkVars, authVars>>

Spec == Init /\ [][Next]_vars

\* the pipeline with one worker, and with all of them on a channel that
\* holds every event submitted
OrderInit ==
    /\ \/ \E buffer \in {QueueCap, MaxEvents} : NewClickProcessorOf(1, buffer)
       \/ NewClickProcessorOf(NumWorkers, MaxEvents)
    /\ NothingCalled
    /\ NewRateLimiter(DefaultRateLimiterConfig)
    /\ NewLinkService
    /\ NoAPIKey
    /\ quota = 0

OrderSpec == OrderInit /\ [][Next]_vars

\* a step of worker w
WorkerStep(w) ==
    /\ \/ WorkerReceive(w)
       \/ \E ok \in BOOLEAN : LookupReturn(w, ok)
       \/ \E ok \in BOOLEAN : PersistReturn(w, ok)
       \/ BackoffWake(w)
    /\ UNCHANGED <<limiterVars, linkVars, authVars>>

\* the pipeline with Stop called again once it has returned
FairNext ==
    \/ StartNoting /\ UNCHANGED <<limiterVars, linkVars, authVars>>
    \/ StopCancel /\ UNCHANGED <<limiterVars, linkVars, authVars>>
    \/ StopWait /\ UNCHANGED <<limiterVars, linkVars, authVars>>
    \/ StopAgain /\ UNCHANGED <<limiterVars, linkVars, authVars>>
    \/ \E done \in BOOLEAN : RecordClick(CodeOf(nextId + 1), done) /\ UNCHANGED <<limiterVars, linkVars, authVars>>
    \/ \E w \in Workers : WorkerStop(w) /\ UNCHANGED <<limiterVars, linkVars, authVars>>
    \/ \E w \in Workers : WorkerStep(w)

\* a worker that can take a step takes one: a ready receive is taken, a
\* call of a repository returns, a sleep ends; a worker whose select finds
\* the cancellation ready again and again ends up taking that case, the
\* choice among ready cases being random; and wg.Wait() returns once the
\* counter is zero
Fairness ==
    /\ \A w \in Workers : WF_vars(WorkerStep(w))
    /\ \A w \in Workers :
          SF_vars(WorkerStop(w) /\ UNCHANGED <<limiterVars, linkVars, authVars>>)
    /\ WF_vars(StopWait /\ UNCHANGED <<limiterVars, linkVars, authVars>>)

\* a pool of one worker
OneWorkerInit ==
    /\ NewClickProcessorOf(1, QueueCap)
    /\ NothingCalled
    /\ NewRateLimiter(DefaultRateLimiterConfig)
    /\ NewLinkService
    /\ NoAPIKey
    /\ quota = 0

FairSpec == OneWorkerInit /\ [][FairNext]_vars /\ Fairness

\* the pool is started and runs: Stop is not called
RunNext ==
    \/ Start /\ UNCHANGED <<limiterVars, linkVars, authVars>>
    \/ \E done \in BOOLEAN : RecordClick(CodeOf(nextId + 1), done) /\ UNCHANGED <<limiterVars, linkVars, authVars>>
    \/ \E w \in Workers : WorkerReceive(w) /\ UNCHANGED <<limiterVars, linkVars, authVars>>
    \/ \E w \in Workers, ok \in BOOLEAN : LookupReturn(w, ok) /\ UNCHANGED <<limiterVars, linkVars, authVars>>
    \/ \E w \in Workers, ok \in BOOLEAN : PersistReturn(w, ok) /\ UNCHANGED <<limiterVars, linkVars, authVars>>
    \/ \E w \in Workers : BackoffWake(w) /\ UNCHANGED <<limiterVars, linkVars, authVars>>

\* the running pool with repository calls that can outlast the deadline of
\* processClick's context
DeadlineNext ==
    \/ RunNext
    \/ \E w \in Workers : Timeout(w) /\ UNCHANGED <<limiterVars, linkVars, authVars>>

DeadlineSpec == Init /\ [][DeadlineNext]_vars

(* ---- the token bucket (golang.org/x/time/rate) -------------------------*)
Min2(a, b) == IF a < b THEN a ELSE b

NewLimiter_Empty(r, b) ==
    [limit |-> r, burst |-> b, tokens |-> 0, last |-> 0]

\* rate.NewLimiter(r, b): a full bucket, never yet used (last is the zero
\* time)
NewLimiter(r, b) ==
    [limit |-> r, burst |-> b, tokens |-> b * TicksPerSecond, last |-> 0]

Advance_NoRefill(lim, t) == lim.tokens

\* the tokens lim holds at instant t: what it held at lim.last plus the
\* refill since, never more than the bucket size
Advance(lim, t) ==
    LET elapsed == IF t < lim.last THEN 0 ELSE t - lim.last
    IN  Min2(lim.burst * TicksPerSecond, lim.tokens + elapsed * lim.limit)

Allow_ChargeOnReject(lim, t) ==
    LET tokens == Advance(lim, t) - TicksPerSecond
    IN  [ok  |-> 1 <= lim.burst /\ tokens >= 0,
         lim |-> [lim EXCEPT !.tokens = tokens, !.last = t]]

\* limiter.Allow() at instant t: one token is taken if the bucket holds
\* one; a refused check leaves the limiter as it was
Allow(lim, t) ==
    LET tokens == Advance(lim, t) - TicksPerSecond
        ok == 1 <= lim.burst /\ tokens >= 0
    IN  [ok  |-> ok,
         lim |-> IF ok THEN [lim EXCEPT !.tokens = tokens, !.last = t]
                 ELSE lim]

(* ---- getLimiter ----------------------------------------------------------*)
\* the identity given to the next rate.Limiter object
FreeId ==
    CHOOSE l \in LimIds :
        /\ l \notin DOMAIN limiters
        /\ \A m \in LimIds : m < l => m \in DOMAIN limiters

\* the map f with the value v under the key k
Put(f, k, v) == (k :> v) @@ f

\* the map f without the keys in S
Drop(f, S) == [k \in DOMAIN f \ S |-> f[k]]

\* whether a request in the bag reqs holds limiter l
Held(l, reqs) == \E q \in BagToSet(reqs) : q.lim = l

Touch_All(key) ==
    [k \in DOMAIN visitors |-> [visitors[k] EXCEPT !.lastSeen = now]]

\* v.lastSeen = time.Now() for the visitor of key
Touch(key) == [visitors EXCEPT ![key].lastSeen = now]

NewVisitor_ZeroTime(l) == [limiter |-> l, lastSeen |-> 0]

\* &visitor{limiter: limiter, lastSeen: time.Now()}
NewVisitor(l) == [limiter |-> l, lastSeen |-> now]

\* getLimiter(key) had no cleanup pass ever run: the visitor of the key is
\* created at the first call and touched at every later one
getLimiterUnswept(key) ==
    IF key \in DOMAIN unswept
    THEN [unswept EXCEPT ![key].lastSeen = now]
    ELSE Put(unswept, key,
             NewVisitor(NewLimiter(config.RequestsPerSecond,
                                   config.BurstSize)))

getLimiter_AlwaysNew(r) ==
    LET l == FreeId
    IN  /\ limiters' = Put(limiters, l,
                NewLimiter(config.RequestsPerSecond, config.BurstSize))
        /\ track' = Put(track, l, NewTrack(r.key))
        /\ visitors' = Put(visitors, r.key, NewVisitor(l))
        /\ inflight' = inflight (+) SetToBag({[r EXCEPT !.lim = l]})
        /\ unswept' = getLimiterUnswept(r.key)

\* getLimiter(r.key), all of it under rl.mu.Lock(): the limiter of the key,
\* created if the key has no visitor; the request keeps the pointer returned
getLimiter(r) ==
    IF r.key \in DOMAIN visitors
    THEN /\ visitors' = Touch(r.key)
         /\ inflight' = inflight (+)
                SetToBag({[r EXCEPT !.lim = visitors[r.key].limiter]})
         /\ unswept' = getLimiterUnswept(r.key)
         /\ UNCHANGED <<limiters, track>>
    ELSE LET l == FreeId
         IN  /\ limiters' = Put(limiters, l,
                    NewLimiter(config.RequestsPerSecond, config.BurstSize))
             /\ track' = Put(track, l, NewTrack(r.key))
             /\ visitors' = Put(visitors, r.key, NewVisitor(l))
             /\ inflight' = inflight (+) SetToBag({[r EXCEPT !.lim = l]})
             /\ unswept' = getLimiterUnswept(r.key)

(* ---- Middleware / MiddlewareWithKey -------------------------------------*)
\* Middleware, up to the return of getLimiter: the key is c.ClientIP()
Middleware(ip) ==
    /\ BagCardinality(inflight) < MaxInFlight
    /\ quota > 0
    /\ quota' = quota - 1
    /\ getLimiter([ip |-> ip, extracted |-> "", custom |-> FALSE,
                   key |-> ip, lim |-> 0])
    /\ UNCHANGED <<config, now, tickerC, resp, swept>>
    /\ UNCHANGED <<clickVars, linkVars, authVars>>

KeyOf_NoFallback(extracted, ip) == extracted

\* key := getKey(c); if key == "" { key = c.ClientIP() }
KeyOf(extracted, ip) == IF extracted = "" THEN ip ELSE extracted

\* MiddlewareWithKey, up to the return of getLimiter
MiddlewareWithKey(ip, k) ==
    /\ BagCardinality(inflight) < MaxInFlight
    /\ quota > 0
    /\ quota' = quota - 1
    /\ getLimiter([ip |-> ip, extracted |-> k, custom |-> TRUE,
                   key |-> KeyOf(k, ip), lim |-> 0])
    /\ UNCHANGED <<config, now, tickerC, resp, swept>>
    /\ UNCHANGED <<clickVars, linkVars, authVars>>

RetryAfter_FromRate(cfg) == TicksPerSecond \div cfg.RequestsPerSecond

\* int(rl.config.CleanupInterval / time.Second)
RetryAfter(cfg) == cfg.CleanupInterval \div TicksPerSecond

\* c.JSON(http.StatusTooManyRequests, ...); c.Abort(); return
TooManyRequests ==
    [status |-> 429, retry_after |-> RetryAfter(config), aborted |-> TRUE,
     next |-> FALSE]

\* c.Next(), and the status the handlers behind the limiter answered
Passed(status) ==
    [status |-> status, retry_after |-> -1, aborted |-> FALSE, next |-> TRUE]

\* whether at least 1 / limit seconds have passed since limiter l refused
\* a check
Waited(l) == track[l].since * limiters[l].limit >= TicksPerSecond

\* what a check on limiter l at this instant, allowed or not, makes of
\* track[l]
Tracked(l, ok) ==
    LET t == track[l]
        fresh == t.winN = 0
        k == IF fresh THEN Advance(limiters[l], now) \div TicksPerSecond
             ELSE t.winK
        one == IF ok THEN 1 ELSE 0
    IN  [t EXCEPT
            !.winK = k,
            !.winN = IF fresh THEN 1 ELSE Min2(t.winN + 1, k + 1),
            !.winA = IF fresh THEN one ELSE t.winA + one,
            !.phase = IF ~ok THEN "rejected"
                      ELSE IF t.phase = "rejected" /\ Waited(l)
                           THEN "refilled"
                           ELSE IF t.phase = "refilled" THEN "refilled"
                                ELSE "clean",
            !.since = 0]

\* what the passing of one tick makes of track[l]
Aged(t) ==
    [t EXCEPT
        !.first = t.first /\ t.winN = 0,
        !.winK = 0, !.winN = 0, !.winA = 0,
        !.phase = IF t.phase = "rejected" THEN "rejected" ELSE "clean",
        !.since = IF t.phase = "rejected"
                  THEN Min2(t.since + 1, TicksPerSecond) ELSE 0]

\* both middlewares from limiter.Allow() on: the check, then either the
\* 429 answer or the handlers behind the limiter, of which the redirect
\* handler submits a click event
MiddlewareAllow(r, route) ==
    /\ r \in BagToSet(inflight)
    /\ LET l == r.lim
           a == Allow(limiters[l], now)
           rest == inflight (-) SetToBag({r})
           gone == track[l].evicted /\ ~Held(l, rest)
       IN  /\ inflight' = rest
           /\ limiters' = IF gone THEN Drop(limiters, {l})
                           ELSE [limiters EXCEPT ![l] = a.lim]
           /\ track' = IF gone THEN Drop(track, {l})
                        ELSE [track EXCEPT ![l] = Tracked(l, a.ok)]
           /\ unswept' = [unswept EXCEPT ![r.key].limiter =
                                Allow(@, now).lim]
           /\ IF ~a.ok
              THEN /\ resp' = TooManyRequests
                   /\ UNCHANGED clickVars
              ELSE IF route = "redirect"
                   THEN /\ resp' = Passed(307)
                        /\ RecordClick(CodeOf(nextId + 1), FALSE)
                   ELSE /\ resp' = Passed(200)
                        /\ UNCHANGED clickVars
    /\ UNCHANGED <<config, visitors, now, tickerC, quota, swept>>
    /\ UNCHANGED <<linkVars, authVars>>

(* ---- cleanup --------------------------------------------------------------*)
Stale_Inclusive(v) == now - v.lastSeen >= config.CleanupInterval * 3

\* time.Since(v.lastSeen) > rl.config.CleanupInterval*3
Stale(v) == now - v.lastSeen > config.CleanupInterval * 3

\* one pass of cleanup, under rl.mu.Lock(); a limiter that no request
\* holds any more ceases to exist
cleanup ==
    LET stale == {k \in DOMAIN visitors : Stale(visitors[k])}
        lims == {visitors[k].limiter : k \in stale}
        kept == {l \in lims : Held(l, inflight)}
    IN  /\ visitors' = Drop(visitors, stale)
        /\ limiters' = Drop(limiters, lims \ kept)
        /\ track' = [l \in DOMAIN track \ (lims \ kept) |->
                        IF l \in kept
                        THEN [track[l] EXCEPT !.evicted = TRUE]
                        ELSE track[l]]
        /\ swept' = swept \cup stale

\* for range ticker.C { rl.cleanup() }
cleanupLoop ==
    /\ tickerC = 1
    /\ tickerC' = 0
    /\ cleanup
    /\ UNCHANGED <<config, now, inflight, resp, quota, unswept>>
    /\ UNCHANGED <<clickVars, linkVars, authVars>>

\* the clock advances by one tick; the ticker made by
\* time.NewTicker(rl.config.CleanupInterval) puts a tick in ticker.C at
\* every multiple of the interval, unless one is still waiting there
TickTo(last) ==
    /\ now < last
    /\ now' = now + 1
    /\ tickerC' = IF (now + 1) % config.CleanupInterval = 0 THEN 1 ELSE tickerC
    /\ swept' = {}
    /\ track' = [l \in DOMAIN track |-> Aged(track[l])]
    /\ UNCHANGED <<config, visitors, limiters, inflight, resp, quota,
                   unswept>>
    /\ UNCHANGED <<clickVars, linkVars, authVars>>

Tick == TickTo(MaxTime)

\* the default middleware, as the router installs it, with the click
\* pipeline behind it: requests up to the burst size and MaxOverBurst more
BucketInit ==
    /\ ClickInit
    /\ \E cfg \in Configs :
            /\ NewRateLimiter(cfg)
            /\ quota = cfg.BurstSize + MaxOverBurst
    /\ NewLinkService
    /\ NoAPIKey

BucketNext ==
    \/ \E ip \in Addrs : Middleware(ip)
    \/ \E r \in BagToSet(inflight), route \in Routes : MiddlewareAllow(r, route)
    \/ cleanupLoop
    \/ Tick

BucketSpec == BucketInit /\ [][BucketNext]_vars

\* both middlewares on one limiter, so that it holds buckets of two keys
LimiterInit ==
    /\ ClickInit
    /\ \E cfg \in SmallConfigs :
            /\ NewRateLimiter(cfg)
            /\ quota = MaxRequests
    /\ NewLinkService
    /\ NoAPIKey

LimiterNext ==
    \/ \E ip \in Addrs : Middleware(ip)
    \/ \E ip \in Addrs, k \in UserKeys : MiddlewareWithKey(ip, k)
    \/ \E r \in BagToSet(inflight) : MiddlewareAllow(r, "health")
    \/ cleanupLoop
    \/ Tick

LimiterSpec == LimiterInit /\ [][LimiterNext]_vars

PromptTick_Late == TickTo(MaxSweepTime)

\* the clock advances once the cleanup loop has taken the tick waiting in
\* ticker.C: every tick of the ticker is followed by its pass of cleanup
PromptTick ==
    /\ tickerC = 0
    /\ TickTo(MaxSweepTime)

\* one key on the limiter whose cleanup loop keeps up with its ticker, for
\* as many requests as fill the bucket twice
SweepInit ==
    /\ ClickInit
    /\ \E cfg \in SweepConfigs :
            /\ NewRateLimiter(cfg)
            /\ quota = 2 * cfg.BurstSize
    /\ NewLinkService
    /\ NoAPIKey

SweepNext ==
    \/ \E ip \in Addrs : Middleware(ip)
    \/ \E r \in BagToSet(inflight) : MiddlewareAllow(r, "health")
    \/ cleanupLoop
    \/ PromptTick

SweepSpec == SweepInit /\ [][SweepNext]_vars

\* time passes, up to instant MaxClock
ClockTick ==
    /\ now < MaxClock
    /\ now' = now + 1
    /\ UNCHANGED <<config, visitors, limiters, track, tickerC, inflight, resp,
                   quota, swept, unswept>>
    /\ UNCHANGED <<clickVars, linkVars, authVars>>

\* the running pool of one worker with the clock running (the limiter
\* being idle)
ClockNext ==
    \/ RunNext
    \/ ClockTick

ClockSpec == OneWorkerInit /\ [][ClockNext]_vars

(* ---- the link repository -------------------------------------------------*)
Exists_Never(code) == FALSE

\* whether table links has a row with that short code
Exists(code) == \E l \in links : l.ShortCode = code

\* the row with that short code
RowOf(code) == CHOOSE l \in links : l.ShortCode = code

(* ---- the calls to the link service ----------------------------------------*)
\* a call that begins: op is "create", "get", "delete" or "redirect" (the
\* Redirect handler, which calls GetLink); pc: the repository call it makes
\* next; link: the link it holds (for DeleteLink, the row the table held
\* when the call began, if the cache has answered and no CreateLink of the
\* code is in progress); custom: input.CustomCode is given; url:
\* input.OriginalURL; retried: linkRepo.Create has returned ErrCodeExists to
\* it; stale: DeleteLink had returned nil for its code when it began, and no
\* link with that code has been inserted since
NewCall(op, code) ==
    [op |-> op, code |-> code, pc |-> "start", link |-> NoLink,
     custom |-> FALSE, url |-> "", retried |-> FALSE,
     stale |-> code \in deleted]

\* a further call can begin
CanCall == quota > 0 /\ BagCardinality(calls) < MaxInFlight

\* what call c returns to its caller
Returned(c, err, link) ==
    [op |-> c.op, code |-> c.code, err |-> err, link |-> link,
     custom |-> c.custom, retried |-> c.retried, stale |-> c.stale,
     status |-> 0, location |-> ""]

\* c.JSON(http.StatusBadRequest, ...); return
BadRequest(c, err) == [Returned(c, err, NoLink) EXCEPT !.status = 400]

TemporaryRedirect_OnSubmitOk(c, result) ==
    IF result = "ctx_err"
    THEN [Returned(c, result, NoLink) EXCEPT !.status = 500]
    ELSE [Returned(c, "nil", c.link) EXCEPT
             !.status = 307, !.location = c.link.OriginalURL]

\* the error of RecordClick is logged at Debug level and dropped;
\* c.Redirect(http.StatusTemporaryRedirect, link.OriginalURL)
TemporaryRedirect(c, result) ==
    [Returned(c, "nil", c.link) EXCEPT
        !.status = 307, !.location = c.link.OriginalURL]

(* ---- GetLink and the Redirect handler -------------------------------------*)
\* GetLink returns link: to the caller of the service, or to the Redirect
\* handler, which goes on to submit the click event
GetLinkReturns(c, rest, link) ==
    IF c.op = "redirect"
    THEN /\ calls' = rest (+) SetToBag({[c EXCEPT !.pc = "submit",
                                                  !.link = link]})
         /\ UNCHANGED ret
    ELSE /\ calls' = rest
         /\ ret' = Returned(c, "nil", link)

\* GetLink returns an error: the Redirect handler answers 400
GetLinkFails(c, rest, err) ==
    /\ calls' = rest
    /\ ret' = IF c.op = "redirect" THEN BadRequest(c, err)
                                   ELSE Returned(c, err, NoLink)

\* GetLink(code), called directly or by Redirect, up to the return of
\* s.cacheRepo.Get: a hit (the cache has answered, ok, and holds the code)
\* returns the cached link; Redirect answers 400 to an empty code
GetLink(op, code, ok) ==
    /\ CanCall
    /\ quota' = quota - 1
    /\ LET c == NewCall(op, code) IN
       IF op = "redirect" /\ code = ""
       THEN /\ ret' = BadRequest(c, "missing_code")
            /\ UNCHANGED calls
       ELSE IF ok /\ code \in DOMAIN cache
            THEN GetLinkReturns(c, calls, cache[code])
            ELSE /\ calls' = calls (+) SetToBag({[c EXCEPT !.pc = "store"]})
                 /\ UNCHANGED ret
    /\ UNCHANGED <<links, cache, nextID, deleted>>
    /\ UNCHANGED <<clickVars, rateVars, authVars>>

\* s.linkRepo.GetByShortCode returns: the row, or ErrLinkNotFound, or the
\* failure of the database (not ok)
GetLinkStore(c, ok) ==
    /\ c \in BagToSet(calls)
    /\ c.op \in {"get", "redirect"}
    /\ c.pc = "store"
    /\ LET rest == calls (-) SetToBag({c}) IN
       IF ok /\ Exists(c.code)
       THEN /\ calls' = rest (+) SetToBag({[c EXCEPT !.pc = "set",
                                            !.link = RowOf(c.code)]})
            /\ UNCHANGED ret
       ELSE GetLinkFails(c, rest, IF ok THEN "not_found" ELSE "db")
    /\ UNCHANGED <<links, cache, nextID, deleted>>
    /\ UNCHANGED <<clickVars, limiterVars, authVars>>

\* s.cacheRepo.Set(ctx, code, link, ttl), whose error is dropped; return
GetLinkSet(c, ok) ==
    /\ c \in BagToSet(calls)
    /\ c.op \in {"get", "redirect"}
    /\ c.pc = "set"
    /\ cache' = IF ok THEN Put(cache, c.code, c.link) ELSE cache
    /\ GetLinkReturns(c, calls (-) SetToBag({c}), c.link)
    /\ UNCHANGED <<links, nextID, deleted>>
    /\ UNCHANGED <<clickVars, limiterVars, authVars>>

\* Redirect, after GetLink has returned a link: RecordClick with the
\* context of the request, then the redirect
Redirect(c, done) ==
    /\ c \in BagToSet(calls)
    /\ c.op = "redirect"
    /\ c.pc = "submit"
    /\ RecordClick(c.code, done)
    /\ calls' = calls (-) SetToBag({c})
    /\ ret' = TemporaryRedirect(c, hist'[nextId'].result)
    /\ UNCHANGED <<links, cache, nextID, deleted>>
    /\ UNCHANGED <<limiterVars, authVars>>

(* ---- DeleteLink -------------------------------------------------------------*)
\* whether a CreateLink call that has inserted a link with that code is in
\* progress
Creating(code) ==
    \E q \in BagToSet(calls) : q.op = "create" /\ q.code = code /\ q.pc = "set"

\* DeleteLink(code), up to the return of s.cacheRepo.Delete, whose error is
\* dropped
DeleteLink(code, ok) ==
    /\ CanCall
    /\ quota' = quota - 1
    /\ cache' = IF ok THEN Drop(cache, {code}) ELSE cache
    /\ calls' = calls (+)
            SetToBag({[NewCall("delete", code) EXCEPT
                          !.pc = "store",
                          !.link = IF ok /\ Exists(code) /\ ~Creating(code)
                                   THEN RowOf(code) ELSE NoLink]})
    /\ UNCHANGED <<links, nextID, ret, deleted>>
    /\ UNCHANGED <<clickVars, rateVars, authVars>>

\* return s.linkRepo.Delete(ctx, code): ErrLinkNotFound if no row was
\* deleted
DeleteLinkStore(c, ok) ==
    /\ c \in BagToSet(calls)
    /\ c.op = "delete"
    /\ c.pc = "store"
    /\ calls' = calls (-) SetToBag({c})
    /\ IF ~ok
       THEN /\ ret' = Returned(c, "db", NoLink)
            /\ UNCHANGED <<links, deleted>>
       ELSE IF ~Exists(c.code)
            THEN /\ ret' = Returned(c, "not_found", NoLink)
                 /\ UNCHANGED <<links, deleted>>
            ELSE /\ links' = links \ {RowOf(c.code)}
                 /\ ret' = Returned(c, "nil", NoLink)
                 /\ deleted' = IF RowOf(c.code) = c.link
                                THEN deleted \cup {c.code}
                                ELSE deleted
    /\ UNCHANGED <<cache, nextID>>
    /\ UNCHANGED <<clickVars, limiterVars, authVars>>

(* ---- CreateLink -------------------------------------------------------------*)
\* s.linkRepo.Create(ctx, link) returns to call c, whose short code is code
\* (input.CustomCode, or the one generateShortCode has drawn): the failure
\* of the database; or ErrCodeExists, on which a call with a custom code
\* returns the error and one without calls CreateLink again; or nil, the
\* row having been inserted with the next id
Insert(c, code, ok, rest) ==
    LET d == [c EXCEPT !.code = code] IN
    IF ~ok
    THEN /\ calls' = rest
         /\ ret' = Returned(d, "db", NoLink)
         /\ UNCHANGED <<links, nextID, deleted>>
    ELSE IF Exists(code)
         THEN /\ IF c.custom
                 THEN /\ calls' = rest
                      /\ ret' = Returned(d, "exists", NoLink)
                 ELSE /\ calls' = rest (+) SetToBag({[d EXCEPT
                                        !.pc = "insert", !.retried = TRUE]})
                      /\ UNCHANGED ret
              /\ UNCHANGED <<links, nextID, deleted>>
         ELSE LET link == Link(nextID, code, c.url)
                  fresh == [q \in BagToSet(rest) |->
                               IF q.code = code THEN [q EXCEPT !.stale = FALSE]
                               ELSE q]
              IN  /\ links' = links \cup {link}
                  /\ nextID' = nextID + 1
                  /\ deleted' = deleted \ {code}
                  /\ calls' = BagOfAll(LAMBDA q : fresh[q], rest) (+)
                        SetToBag({[d EXCEPT !.pc = "set", !.link = link,
                                            !.stale = FALSE]})
                  /\ UNCHANGED ret

\* CreateLink(input), up to the return of s.linkRepo.Create; the URL is
\* well formed and not blacklisted, the custom code, if any, is valid
CreateLink(custom, code, url, ok) ==
    /\ CanCall
    /\ quota' = quota - 1
    /\ Insert([NewCall("create", code) EXCEPT !.custom = custom, !.url = url],
              code, ok, calls)
    /\ UNCHANGED cache
    /\ UNCHANGED <<clickVars, rateVars, authVars>>

\* return s.CreateLink(ctx, input), after ErrCodeExists on a generated
\* code: a new code is drawn and inserted
CreateLinkRetry(c, code, ok) ==
    /\ c \in BagToSet(calls)
    /\ c.op = "create"
    /\ c.pc = "insert"
    /\ Insert(c, code, ok, calls (-) SetToBag({c}))
    /\ UNCHANGED cache
    /\ UNCHANGED <<clickVars, limiterVars, authVars>>

\* s.cacheRepo.Set(ctx, link.ShortCode, link, ttl), whose error is dropped;
\* return link, nil
CreateLinkSet(c, ok) ==
    /\ c \in BagToSet(calls)
    /\ c.op = "create"
    /\ c.pc = "set"
    /\ cache' = IF ok THEN Put(cache, c.code, c.link) ELSE cache
    /\ calls' = calls (-) SetToBag({c})
    /\ ret' = Returned(c, "nil", c.link)
    /\ UNCHANGED <<links, nextID, deleted>>
    /\ UNCHANGED <<clickVars, limiterVars, authVars>>

\* the link service and the Redirect handler over an empty table, with the
\* click channel behind the handler (the pool is not started)
LinkInit ==
    /\ ClickInit
    /\ NewRateLimiter(DefaultRateLimiterConfig)
    /\ NewLinkService
    /\ NoAPIKey
    /\ quota = MaxCalls

LinkNext ==
    \/ \E code \in ShortCodes, ok \in BOOLEAN : GetLink("get", code, ok)
    \/ \E code \in ShortCodes \cup {""}, ok \in BOOLEAN :
            GetLink("redirect", code, ok)
    \/ \E c \in BagToSet(calls), ok \in BOOLEAN : GetLinkStore(c, ok)
    \/ \E c \in BagToSet(calls), ok \in BOOLEAN : GetLinkSet(c, ok)
    \/ \E c \in BagToSet(calls), done \in BOOLEAN : Redirect(c, done)
    \/ \E code \in ShortCodes, ok \in BOOLEAN : DeleteLink(code, ok)
    \/ \E c \in BagToSet(calls), ok \in BOOLEAN : DeleteLinkStore(c, ok)
    \/ \E custom \in BOOLEAN, code \in ShortCodes, url \in Urls,
          ok \in BOOLEAN : CreateLink(custom, code, url, ok)
    \/ \E c \in BagToSet(calls), code \in ShortCodes, ok \in BOOLEAN :
            CreateLinkRetry(c, code, ok)
    \/ \E c \in BagToSet(calls), ok \in BOOLEAN : CreateLinkSet(c, ok)

LinkSpec == LinkInit /\ [][LinkNext]_vars

(* ---- the API key middleware ------------------------------------------------*)
\* strings.HasPrefix(s, prefix)
HasPrefix(s, prefix) ==
    /\ Len(s) >= Len(prefix)
    /\ SubSeq(s, 1, Len(prefix)) = prefix

\* strings.TrimPrefix(s, prefix)
TrimPrefix(s, prefix) ==
    IF HasPrefix(s, prefix) THEN SubSeq(s, Len(prefix) + 1, Len(s)) ELSE s

\* c.GetHeader(name): the empty string if the request has no such header
GetHeader(c, name) ==
    IF name \in DOMAIN c.header THEN c.header[name] ELSE Empty

ExtractKey_HeaderOnly(c) == GetHeader(c, ak.config.HeaderName)

\* the key the request presents: the configured header, else the query
\* parameter api_key, else the token of Authorization: Bearer
ExtractKey(c) ==
    LET fromHeader == GetHeader(c, ak.config.HeaderName)
        fromQuery == IF fromHeader = Empty THEN c.query ELSE fromHeader
    IN  IF fromQuery = Empty /\ HasPrefix(c.authorization, Bearer)
        THEN TrimPrefix(c.authorization, Bearer)
        ELSE fromQuery

\* the loop over ak.config.ValidKeys with subtle.ConstantTimeCompare, which
\* is 1 exactly for equal byte strings
Validate(apiKey) ==
    IF \E validKey \in DOMAIN ak.config.ValidKeys : validKey = apiKey
    THEN [valid |-> TRUE, keyName |-> ak.config.ValidKeys[apiKey]]
    ELSE [valid |-> FALSE, keyName |-> ""]

\* c.JSON(http.StatusUnauthorized, ...); c.Abort(); return
Unauthorized(c, error) ==
    [c EXCEPT !.status = 401, !.error = error, !.aborted = TRUE,
              !.pc = "done"]

\* the handler returned by ak.Middleware(), run on the request
APIKeyMiddleware ==
    /\ gctx.pc = "start"
    /\ LET apiKey == ExtractKey(gctx)
           v == Validate(apiKey)
       IN  gctx' =
             IF apiKey = Empty
             THEN IF ak.config.Optional
                  THEN [gctx EXCEPT
                          !.keys = Put(@, "api_key_validated", FALSE),
                          !.next = TRUE, !.pc = "done"]
                  ELSE Unauthorized(gctx, "missing_api_key")
             ELSE IF ~v.valid
                  THEN Unauthorized(gctx, "invalid_api_key")
                  ELSE [gctx EXCEPT
                          !.keys = Put(Put(Put(@,
                                      "api_key_validated", TRUE),
                                      "api_key_name", v.keyName),
                                      "api_key", apiKey),
                          !.next = TRUE, !.pc = "done"]
    /\ UNCHANGED ak
    /\ UNCHANGED <<clickVars, limiterVars, linkVars>>

\* the values a request can carry in the header or the query parameter
KeyValues == {Empty, TestKey1, BadKey}

\* the values a request can carry in header Authorization
Authorizations ==
    {Empty, Bearer, Bearer \o TestKey2, Bearer \o BadKey, Basic \o TestKey1,
     LowerBearer \o TestKey1}

\* RequireAPIKey or OptionalAPIKey, or NewAPIKey without a header name, and
\* one request
AuthInit ==
    /\ ClickInit
    /\ NewRateLimiter(DefaultRateLimiterConfig)
    /\ NewLinkService
    /\ quota = 0
    /\ \E name \in {XAPIKey, Empty}, optional \in BOOLEAN :
            ak = NewAPIKey(APIKeyConfig(name, optional))
    /\ \E header \in KeyValues, query \in KeyValues,
          authorization \in Authorizations :
            gctx = NewContext(header, query, authorization)

AuthNext == APIKeyMiddleware

AuthSpec == AuthInit /\ [][AuthNext]_vars

(* ---- vocabulary of the properties -------------------------------------*)
Queued == {clickChannel.buf[k].id : k \in 1..Len(clickChannel.buf)}

InFlight == {held[w].id : w \in Workers} \ {0}

Called == 1..nextId

Accepted == {e \in Called : hist[e].result = "accepted"}

Dropped == {e \in Called : hist[e].result = "dropped"}

\* the sum of f over S
RECURSIVE SumOver(_, _)
SumOver(S, f) ==
    IF S = {} THEN 0
    ELSE LET x == CHOOSE y \in S : TRUE IN f[x] + SumOver(S \ {x}, f)

\* the log records of that level and message about event e
LogsAbout(level, msg, e) ==
    {r \in BagToSet(logs) : r.ev = e /\ r.msg = msg /\ r.level = level}

\* exactly n records of that level and message are about event e, and each
\* names the short code of e
LoggedFor(level, msg, e, n) ==
    LET S == LogsAbout(level, msg, e)
    IN  /\ \A r \in S : r.short_code = CodeOf(e)
        /\ SumOver(S, [r \in S |-> CopiesIn(r, logs)]) = n

\* the step is a RecordClick call
IsSubmit == nextId' = nextId + 1

NewEvent == [id |-> nextId', code |-> CodeOf(nextId')]

(* ---- C1 ------------------------------------------------------------------*)
\* C1: in every reachable state the number of events in the click channel
\* is between 0 and the capacity fixed at construction, and the capacity is
\* still the one set at construction.
C1_QueueWithinCapacity ==
    /\ clickChannel.cap = QueueCap
    /\ Len(clickChannel.buf) >= 0
    /\ Len(clickChannel.buf) <= clickChannel.cap

\* the queue is full again after a worker has taken an event off it
C1_Witness ==
    /\ Len(clickChannel.buf) = clickChannel.cap
    /\ \E e \in Called : hist[e].receives > 0
    /\ nextId > clickChannel.cap

(* ---- C2 ------------------------------------------------------------------*)
\* C2: for every event the persistence call succeeds at most once: the
\* event is received by at most one worker, once, and after a successful
\* attempt it is neither queued nor held, so no further attempt is made.
C2_PersistedAtMostOnce ==
    \A e \in EventIds :
        /\ hist[e].succ <= 1
        /\ hist[e].receives <= 1
        /\ Cardinality({w \in Workers : held[w].id = e}) <= 1
        /\ hist[e].receives = 1 => e \notin Queued
        /\ hist[e].succ = 1 => /\ e \notin InFlight
                               /\ e \notin Queued
                               /\ hist[e].outcome = "persisted"

\* an event persisted on a retry while the other worker is processing
C2_Witness ==
    \E e \in Called :
        /\ hist[e].succ = 1
        /\ hist[e].attempts >= 2
        /\ \E w \in Workers : pc[w] = "persist" /\ held[w].id # e

(* ---- C3 ------------------------------------------------------------------*)
\* C3 as stated: whenever RecordClick is called while the queue is at
\* capacity, the queue is unchanged, the call returns nil and exactly one
\* warning record naming the event's short code is written.
C3_Original ==
    [][(IsSubmit /\ Len(clickChannel.buf) = clickChannel.cap)
        => /\ clickChannel' = clickChannel
           /\ hist'[nextId'].result = "dropped"
           /\ logs' = logs (+) SetToBag({LogRec("warn", "channel_full",
                                                CodeOf(nextId'), nextId')})
      ]_vars

\* C3 amended: whenever RecordClick is called with a caller context that
\* is not cancelled while the queue is at capacity, the queue is unchanged,
\* the call returns nil and exactly one warning record naming the event's
\* short code is written.
C3_DropOnFull ==
    [][(IsSubmit /\ ~lastDone' /\ Len(clickChannel.buf) = clickChannel.cap)
        => /\ clickChannel' = clickChannel
           /\ hist'[nextId'].result = "dropped"
           /\ logs' = logs (+) SetToBag({LogRec("warn", "channel_full",
                                                CodeOf(nextId'), nextId')})
      ]_vars

\* the latest call, with a live context, found the queue full
C3_Witness ==
    /\ nextId >= 1
    /\ ~lastDone
    /\ hist[nextId].result = "dropped"
    /\ Len(clickChannel.buf) = clickChannel.cap
    /\ LoggedFor("warn", "channel_full", nextId, 1)

(* ---- C4 ------------------------------------------------------------------*)
\* C4 as stated: whenever RecordClick is called while the queue has a free
\* slot, the event is appended and the call returns nil.
C4_Original ==
    [][(IsSubmit /\ Len(clickChannel.buf) < clickChannel.cap)
        => /\ clickChannel'.buf = Append(clickChannel.buf, NewEvent)
           /\ hist'[nextId'].result = "accepted"
      ]_vars

\* C4 amended: whenever RecordClick is called with a caller context that
\* is not cancelled while the queue has a free slot, the event is appended
\* at the tail (occupancy grows by one) and the call returns nil in that
\* one step, writing no log record and leaving every worker where it was.
C4_EnqueueOnFreeSlot ==
    [][(IsSubmit /\ ~lastDone' /\ Len(clickChannel.buf) < clickChannel.cap)
        => /\ clickChannel'.buf = Append(clickChannel.buf, NewEvent)
           /\ Len(clickChannel'.buf) = Len(clickChannel.buf) + 1
           /\ hist'[nextId'].result = "accepted"
           /\ logs' = logs
           /\ pc' = pc /\ held' = held /\ attempt' = attempt
      ]_vars

\* the latest call was accepted while a worker was in a backoff sleep
C4_Witness ==
    /\ nextId >= 1
    /\ ~lastDone
    /\ hist[nextId].result = "accepted"
    /\ Len(clickChannel.buf) >= 1
    /\ clickChannel.buf[Len(clickChannel.buf)].id = nextId
    /\ \E w \in Workers : pc[w] = "sleep"

C6_StopWaitsForWorkers ==
    caller = "stopped" =>
        /\ \A w \in Workers : pc[w] = "exited"
        /\ wg = 0

\* Stop has returned from a shutdown at whose cancellation every worker
\* was inside processClick
C6_Witness ==
    /\ caller = "stopped"
    /\ atCancel.taken
    /\ atCancel.busy = NumWorkers

(* ---- C7 ------------------------------------------------------------------*)
\* C7 as stated: an event resident in the queue when Stop cancels is still
\* in the queue, never received by a worker, for the rest of that shutdown.
C7_Original ==
    (atCancel.taken /\ caller \in {"stopping", "stopped"}) =>
        \A e \in atCancel.resident :
            /\ hist[e].receives = 0
            /\ e \in Queued

\* C7 amended: Stop does not drain the queue: its own steps take nothing
\* off the queue and hand nothing to a port, and once Stop has returned no
\* event is dequeued or handed to the lookup or persistence port (until the
\* pool is started again), so events may stay resident.  Between the
\* cancellation and its own exit, however, a worker whose select finds both
\* the cancellation and a queued event ready may still receive that event.
C7_NoDrainOnceStopped ==
    [][(caller = "stopped" \/ caller' # caller)
        => /\ \A e \in EventIds : /\ hist'[e].receives = hist[e].receives
                                  /\ hist'[e].attempts = hist[e].attempts
           /\ Len(clickChannel'.buf) >= Len(clickChannel.buf)
           /\ SubSeq(clickChannel'.buf, 1, Len(clickChannel.buf))
                = clickChannel.buf
      ]_vars

\* Stop has returned and an event resident at the cancellation is still
\* queued, every worker having exited
C7_Witness ==
    /\ caller = "stopped"
    /\ \E e \in atCancel.resident : e \in Queued /\ hist[e].receives = 0
    /\ \A w \in Workers : pc[w] = "exited"

(* ---- C8 ------------------------------------------------------------------*)
\* C8: an event is given at most maxRetries persistence attempts; if it is
\* persisted, the attempts are the failed ones plus the one success (so
\* maxRetries-1 failures then a success make exactly maxRetries attempts)
\* and no error record is written; if every attempt fails, exactly
\* maxRetries attempts are made and exactly one error record is written.
C8_RetryBound ==
    \A e \in EventIds :
        LET h == hist[e] IN
        /\ h.attempts <= maxRetries
        /\ h.outcome = "persisted" =>
              /\ h.succ = 1
              /\ h.attempts = h.fails + 1
              /\ LoggedFor("error", "record_failed", e, 0)
        /\ h.outcome = "exhausted" =>
              /\ h.succ = 0
              /\ h.fails = maxRetries
              /\ h.attempts = maxRetries
              /\ LoggedFor("error", "record_failed", e, 1)
        /\ h.outcome # "exhausted" => LoggedFor("error", "record_failed", e, 0)

\* one event persisted on its last attempt, another discarded after
\* maxRetries failures
C8_Witness ==
    /\ \E e \in Called : /\ hist[e].outcome = "persisted"
                         /\ hist[e].fails = maxRetries - 1
                         /\ hist[e].attempts = maxRetries
    /\ \E e \in Called : hist[e].outcome = "exhausted"

(* ---- C9 ------------------------------------------------------------------*)
\* C9: an event whose lookup failed has exactly one warning record, no
\* persistence attempt and a single lookup call, and processing of it has
\* ended.
C9_LookupFailureDiscards ==
    \A e \in EventIds :
        /\ hist[e].lookup = "err" =>
              /\ LoggedFor("warn", "lookup_failed", e, 1)
              /\ hist[e].attempts = 0
              /\ hist[e].receives = 1
              /\ hist[e].outcome = "lookup_failed"
              /\ e \notin InFlight
              /\ e \notin Queued
        /\ hist[e].lookup # "err" => LoggedFor("warn", "lookup_failed", e, 0)

\* an event discarded by a failed lookup, after which a later event was
\* persisted
C9_Witness ==
    \E e, f \in Called :
        /\ hist[e].lookup = "err"
        /\ f > e
        /\ hist[f].outcome = "persisted"

(* ---- C10 -----------------------------------------------------------------*)
\* no persistence call has returned
Stalled == \A e \in EventIds : hist[e].succ = 0 /\ hist[e].fails = 0

\* events whose persistence call has been made
AtPort == {e \in Called : hist[e].attempts >= 1}

\* the overflow scenario: a pool started once and running, QueueCap + 1
\* calls made, none of which returned the caller's context error, every
\* lookup succeeding and persistence stalled
OverflowScenario ==
    /\ caller = "running"
    /\ starts = 1
    /\ nextId = QueueCap + 1
    /\ \A e \in Called : hist[e].result # "ctx_err"
    /\ \A e \in Called : hist[e].lookup # "err"
    /\ Stalled

\* C10 as stated: in the overflow scenario exactly one event is dropped
\* (with one warning record) and exactly QueueCap events are accepted.
C10_Original ==
    OverflowScenario =>
        /\ Cardinality(Dropped) = 1
        /\ Cardinality(Accepted) = QueueCap
        /\ \A e \in Dropped : LoggedFor("warn", "channel_full", e, 1)

\* C10 amended: in the overflow scenario every call returned nil; at most
\* one event is dropped, the last one, and none is dropped only if a
\* worker had taken an event off the queue; each dropped event has exactly
\* one warning record and no other event has any; the accepted events
\* (QueueCap or QueueCap + 1 of them) are all queued or held by a worker,
\* and at most workerCount of them have reached the persistence port.
C10_OverflowDropsAtMostOne ==
    OverflowScenario =>
        /\ Called = Accepted \cup Dropped
        /\ Dropped \subseteq {QueueCap + 1}
        /\ Dropped = {} => InFlight # {}
        /\ \A e \in Dropped : LoggedFor("warn", "channel_full", e, 1)
        /\ \A e \in Accepted : LoggedFor("warn", "channel_full", e, 0)
        /\ Cardinality(Accepted) >= QueueCap
        /\ Accepted = Queued \cup InFlight
        /\ Queued \cap InFlight = {}
        /\ AtPort \subseteq InFlight
        /\ Cardinality(AtPort) <= workerCount

\* all QueueCap + 1 events were accepted: every worker is stalled inside a
\* persistence call and the rest are queued
C10_Witness ==
    /\ OverflowScenario
    /\ Dropped = {}
    /\ \A w \in Workers : pc[w] = "persist"
    /\ Cardinality(AtPort) = workerCount

C12_FailuresAreNotFatal ==
    [][\A w \in Workers :
          /\ (pc[w] # "exited" /\ pc'[w] = "exited")
                => (pc[w] = "select" /\ ctxDone = "cancelled")
          /\ (held[w] # NoEvent
              /\ hist[held[w].id].outcome = "none"
              /\ hist'[held[w].id].outcome \in {"lookup_failed", "exhausted"})
                => (pc'[w] = "select" /\ wg' = wg)
      ]_vars

\* a worker whose retry loop ran to exhaustion (its loop variable is still
\* maxRetries) is processing the next event
C12_Witness ==
    \E w \in Workers :
        /\ attempt[w] = maxRetries
        /\ pc[w] = "lookup"
        /\ held[w] # NoEvent
        /\ \E e \in Called : e # held[w].id /\ hist[e].outcome = "exhausted"

(* ---- vocabulary of the limiter's properties ----------------------------*)
\* the rate.Limiter objects in existence
Live == DOMAIN limiters

InFlightReqs == BagToSet(inflight)

\* this step is the admission check of request r
Checked(r) ==
    /\ r \in InFlightReqs
    /\ inflight' = inflight (-) SetToBag({r})

\* this step is the getLimiter call of a request for key k
Entered(k) ==
    \E q \in BagToSet(inflight') :
        /\ q.key = k
        /\ inflight' = inflight (+) SetToBag({q})

\* this step is one pass of cleanup
Swept == tickerC = 1 /\ tickerC' = 0

BurstUnits == config.BurstSize * TicksPerSecond

(* ---- C13 -----------------------------------------------------------------*)
\* C13: on a bucket that was never checked before the current instant, the
\* checks made at this instant are allowed up to the BurstSize-th and the
\* handlers behind the limiter run; every further one is answered 429.
C13_BurstThenReject ==
    [][\A r \in InFlightReqs :
          (Checked(r) /\ track[r.lim].first)
            => IF track[r.lim].winN < config.BurstSize
               THEN resp'.status # 429 /\ resp'.next
               ELSE resp'.status = 429
      ]_vars

\* a fresh bucket has allowed BurstSize checks and refused the next one, all
\* at one instant
C13_Witness ==
    \E l \in Live :
        /\ track[l].first
        /\ track[l].winA = config.BurstSize
        /\ track[l].winN = config.BurstSize + 1
        /\ resp.status = 429

(* ---- C14 -----------------------------------------------------------------*)
\* C14: the tokens a bucket stores, and the tokens it holds once the refill
\* up to the present is counted, are between 0 and BurstSize; an allowed
\* check takes exactly one token from what the bucket holds at that instant,
\* a refused check leaves the bucket as it was.
C14_TokensWithinBurst ==
    [][/\ \A l \in DOMAIN limiters' :
                 /\ limiters'[l].tokens >= 0
                 /\ limiters'[l].tokens <= BurstUnits
                 /\ Advance(limiters'[l], now') >= 0
                 /\ Advance(limiters'[l], now') <= BurstUnits
       /\ \A r \in InFlightReqs :
            (Checked(r) /\ r.lim \in DOMAIN limiters')
              => IF resp'.status = 429
                 THEN limiters'[r.lim] = limiters[r.lim]
                 ELSE Advance(limiters'[r.lim], now)
                        = Advance(limiters[r.lim], now) - TicksPerSecond
      ]_vars

\* a bucket that allowed checks until it held less than one token, then
\* refused one, and has since refilled to its full size
C14_Witness ==
    \E l \in Live :
        /\ track[l].phase = "rejected"
        /\ limiters[l].tokens < TicksPerSecond
        /\ Advance(limiters[l], now) = BurstUnits
        /\ limiters[l].tokens + (now - limiters[l].last) * limiters[l].limit
              > BurstUnits

(* ---- C15 -----------------------------------------------------------------*)
\* C15: a check on a bucket whose latest check was refused, made at least
\* 1 / RequestsPerSecond seconds after that refusal, is allowed.
C15_RefillAfterExhaustion ==
    [][\A r \in InFlightReqs :
          (Checked(r) /\ track[r.lim].phase = "rejected" /\ Waited(r.lim))
            => resp'.status # 429
      ]_vars

\* burst 5 at 5 per second: a check has been allowed after a refusal and a
\* wait
C15_Witness ==
    /\ config.BurstSize = 5
    /\ config.RequestsPerSecond = 5
    /\ resp.status # 429
    /\ \E l \in Live : track[l].phase = "refilled"

C17_KeysIndependent ==
    [][/\ \A k \in Keys :
            Entered(k) =>
              /\ DOMAIN visitors' = DOMAIN visitors \cup {k}
              /\ \A b \in DOMAIN visitors \ {k} :
                    /\ visitors'[b] = visitors[b]
                    /\ limiters'[visitors[b].limiter]
                          = limiters[visitors[b].limiter]
       /\ \A r \in InFlightReqs :
            Checked(r) =>
              /\ visitors' = visitors
              /\ \A l \in Live \ {r.lim} :
                    l \in DOMAIN limiters' /\ limiters'[l] = limiters[l]
              /\ (track[r.lim].first /\ track[r.lim].winN = 0)
                    => resp'.status # 429
      ]_vars

\* the bucket of one key refused a check at an earlier instant, and the
\* first check on the bucket of another key has now been allowed
C17_Witness ==
    \E a \in Live, b \in Live :
        /\ track[a].key # track[b].key
        /\ track[a].phase = "rejected"
        /\ track[a].since >= 1
        /\ track[b].first
        /\ track[b].winN = 1
        /\ track[b].winA = 1

(* ---- C18 -----------------------------------------------------------------*)
\* C18: a cleanup pass deletes exactly the visitors last seen more than
\* 3 x CleanupInterval ago and leaves every other visitor as it was, so
\* that right after it every visitor was seen within 3 x CleanupInterval.
C18_IdleEviction ==
    [][Swept =>
          /\ DOMAIN visitors' =
                {k \in DOMAIN visitors :
                    now - visitors[k].lastSeen <= 3 * config.CleanupInterval}
          /\ \A k \in DOMAIN visitors' :
                /\ visitors'[k] = visitors[k]
                /\ now - visitors'[k].lastSeen <= 3 * config.CleanupInterval
      ]_vars

\* a pass at this instant deleted a visitor and kept one idle for exactly
\* 3 x CleanupInterval
C18_Witness ==
    /\ swept # {}
    /\ \E k \in DOMAIN visitors :
          now - visitors[k].lastSeen = 3 * config.CleanupInterval

(* ---- C19 -----------------------------------------------------------------*)
\* C19: a refused check is answered 429 with the request aborted, no
\* handler behind the limiter run and the click pipeline untouched; its
\* retry_after is the whole seconds of CleanupInterval.
C19_RejectionAborts ==
    [][\A r \in InFlightReqs :
          (Checked(r) /\ ~Allow(limiters[r.lim], now).ok)
            => /\ resp'.status = 429
               /\ resp'.aborted
               /\ ~resp'.next
               /\ resp'.retry_after = config.CleanupInterval \div TicksPerSecond
               /\ nextId' = nextId
               /\ clickChannel' = clickChannel
               /\ hist' = hist
      ]_vars

\* a request was refused after the redirect handler had submitted a click
\* event for an earlier one; CleanupInterval is half a second, of which
\* the whole seconds are 0
C19_Witness ==
    /\ resp.status = 429
    /\ resp.retry_after = 0
    /\ config.CleanupInterval = 1
    /\ nextId = 1

InProgress == BagToSet(calls)

\* this step ends call c: it returns, or the handler answers
Ends(c) ==
    /\ c \in InProgress
    /\ calls' = calls (-) SetToBag({c})

\* this step is a call that returns as soon as it has begun
EndsAtOnce == quota' = quota - 1 /\ calls' = calls

(* ---- C21 -----------------------------------------------------------------*)
\* C21: the step in which Redirect answers a request whose link resolved
\* makes exactly one RecordClick call, for the requested code, and answers
\* 307 with the original URL of the link, whatever RecordClick returned
\* (accepted, dropped, or the context error); a request whose link did not
\* resolve is answered 400; and no other step of the handler, or of the
\* service, makes a RecordClick call.
C21_RedirectIgnoresSubmit ==
    [][/\ \A c \in InProgress :
            (Ends(c) /\ c.op = "redirect") =>
                IF c.link # NoLink
                THEN /\ nextId' = nextId + 1
                     /\ hist'[nextId'].result
                            \in {"accepted", "dropped", "ctx_err"}
                     /\ hist'[nextId'].result = "accepted"
                          => clickChannel'.buf = Append(clickChannel.buf,
                                [id |-> nextId', code |-> c.code])
                     /\ ret'.status = 307
                     /\ ret'.location = c.link.OriginalURL
                     /\ c.link.ShortCode = c.code
                ELSE /\ nextId' = nextId
                     /\ clickChannel' = clickChannel
                     /\ ret'.status = 400
       /\ (EndsAtOnce /\ ret'.op = "redirect") =>
                /\ ret'.status = 400
                /\ clickChannel' = clickChannel
       /\ nextId' # nextId =>
                \E c \in InProgress :
                    Ends(c) /\ c.op = "redirect" /\ c.link # NoLink
      ]_vars

\* a request has been redirected although its click event was dropped on
\* the full queue, which holds the event of an earlier request
C21_Witness ==
    /\ nextId = QueueCap + 1
    /\ \A e \in 1..QueueCap : hist[e].result = "accepted"
    /\ hist[nextId].result = "dropped"
    /\ ret.op = "redirect"
    /\ ret.status = 307
    /\ ret.location \in Urls

(* ---- C22 -----------------------------------------------------------------*)
\* C22: once DeleteLink(code) has returned nil (the cache having answered,
\* and no CreateLink of that code having run during the call), and until a link with that code is inserted again,
\* neither the cache nor the table holds a link
\* with that code, and every GetLink(code) that begins returns an error,
\* whatever GetLink calls ran concurrently with the delete; and DeleteLink
\* of a code that the table does not hold returns an error.
C22_DeleteIsFinal ==
    [][/\ \A code \in deleted' :
            /\ code \notin DOMAIN cache'
            /\ \A l \in links' : l.ShortCode # code
       /\ \A c \in InProgress :
            (Ends(c) /\ c.op = "get" /\ c.stale) => ret'.err # "nil"
       /\ (EndsAtOnce /\ ret'.op = "get" /\ ret'.code \in deleted)
            => ret'.err # "nil"
       /\ \A c \in InProgress :
            (Ends(c) /\ c.op = "delete" /\ ~Exists(c.code))
                => ret'.err # "nil"
      ]_vars

(* ---- C23 -----------------------------------------------------------------*)
\* C23: no two rows of the table share a short code (or an id); a
\* CreateLink call without a custom code never returns ErrCodeExists: when
\* its insert collides it stays in progress and draws another code, and it
\* leaves that state only by the failure of the database or by inserting a
\* row whose code the table did not hold; a CreateLink call with a custom code that the table
\* holds returns an error, the table and the cache being left as they were.
C23_CodesUnique ==
    [][/\ \A l \in links', m \in links' :
            (l.ShortCode = m.ShortCode \/ l.ID = m.ID) => l = m
       /\ \A c \in InProgress :
            (Ends(c) /\ c.op = "create" /\ ~c.custom) => ret'.err # "exists"
       /\ (EndsAtOnce /\ ret'.op = "create" /\ ~ret'.custom)
            => ret'.err # "exists"
       /\ \A c \in InProgress :
            (c.op = "create" /\ c.pc = "insert"
               /\ CopiesIn(c, calls') < CopiesIn(c, calls)) =>
                \/ Ends(c) /\ ret'.err = "db" /\ links' = links
                \/ \E d \in BagToSet(calls') :
                        /\ d.op = "create" /\ d.pc = "insert" /\ d.retried
                        /\ Exists(d.code)
                        /\ links' = links
                \/ \E d \in BagToSet(calls') :
                        /\ d.op = "create" /\ d.pc = "set" /\ d.retried
                        /\ ~Exists(d.code)
                        /\ links' = links \cup {d.link}
                        /\ d.link.ShortCode = d.code
       /\ (EndsAtOnce /\ ret'.op = "create" /\ ret'.custom
              /\ Exists(ret'.code))
            => /\ ret'.err \in {"exists", "db"}
               /\ links' = links
               /\ cache' = cache
      ]_vars

\* a CreateLink call whose generated code had collided has returned a link
\* with another code, which the table and the cache now hold beside the
\* link it had collided with
C23_Witness ==
    /\ ret.op = "create"
    /\ ret.retried
    /\ ret.err = "nil"
    /\ ret.link \in links
    /\ Cardinality(links) = 2
    /\ ret.code \in DOMAIN cache
    /\ cache[ret.code] = ret.link

(* ---- C24 -----------------------------------------------------------------*)
\* C24: the key a request presents is the value of the configured header
\* if that is not empty, else the query parameter api_key if that is not
\* empty, else what follows "Bearer " in header Authorization.  Once the
\* middleware has run: a request presenting no key is answered 401 and
\* aborted, unless the middleware is optional, and then the handlers run
\* with api_key_validated = false; a request presenting a key that is not a
\* valid one is answered 401 and aborted, optional or not; a request
\* presenting a valid key runs the handlers with api_key_validated = true.
C24_APIKeyAdmission ==
    gctx.pc = "done" =>
        LET h == gctx.header[XAPIKey]
            q == gctx.query
            a == gctx.authorization
            key == IF h # Empty THEN h
                   ELSE IF q # Empty THEN q
                   ELSE IF Len(a) >= 7 /\ SubSeq(a, 1, 7) = Bearer
                        THEN SubSeq(a, 8, Len(a))
                        ELSE Empty
            rejected == /\ gctx.status = 401
                        /\ gctx.aborted
                        /\ ~gctx.next
                        /\ gctx.keys = EmptyMap
            passed(validated) ==
                        /\ gctx.status = 0
                        /\ ~gctx.aborted
                        /\ gctx.next
                        /\ "api_key_validated" \in DOMAIN gctx.keys
                        /\ gctx.keys["api_key_validated"] = validated
        IN  /\ (key = Empty /\ ~ak.config.Optional) => rejected
            /\ (key = Empty /\ ak.config.Optional) => passed(FALSE)
            /\ (key # Empty /\ key \notin {TestKey1, TestKey2}) => rejected
            /\ key \in {TestKey1, TestKey2} =>
                    /\ passed(TRUE)
                    /\ gctx.keys["api_key"] = key

\* an optional middleware has let through a request whose only key is a
\* valid Bearer token
C24_Witness ==
    /\ gctx.pc = "done"
    /\ ak.config.Optional
    /\ gctx.header[XAPIKey] = Empty
    /\ gctx.query = Empty
    /\ gctx.authorization = Bearer \o TestKey2
    /\ gctx.next
    /\ gctx.keys["api_key_validated"] = TRUE
    /\ gctx.keys["api_key"] = TestKey2

(* ---- C25 -----------------------------------------------------------------*)
\* C25: once the pool's context is cancelled, a worker that was processing
\* an event at that moment is not pre-empted (it leaves only from the
\* select of its loop, holding nothing), and no further persistence attempt
\* is started for that event.
C25_NoAttemptAfterCancel ==
    [][(ctxDone = "cancelled" /\ atCancel.taken) =>
          \A w \in Workers :
              held[w].id \in atCancel.inhand =>
                  /\ pc'[w] # "exited"
                  /\ hist[held[w].id].attempts >= 1 =>
                        hist'[held[w].id].attempts = hist[held[w].id].attempts
      ]_vars

(* ---- C26 -----------------------------------------------------------------*)
\* C26: for every event whose attempts are exhausted, exactly one record of
\* level error has been written, and it carries the short code of the event
\* and the error returned by the last persistence attempt.
C26_ErrorRecordCarriesLastError ==
    \A e \in Called :
        hist[e].outcome = "exhausted" =>
            /\ LoggedFor("error", "record_failed", e, 1)
            /\ hist[e].err # "nil"
            /\ CopiesIn(WithError(
                    LogRec("error", "record_failed", CodeOf(e), e),
                    hist[e].err), logs) = 1

(* ---- C27 -----------------------------------------------------------------*)
\* C27: the channel holds the accepted events in the order of their
\* acceptance and a receive takes the oldest, every event accepted before it
\* having left the channel already; a worker receives an event only at the
\* select of its loop, holding none, and holds it until processClick has
\* returned, no event being held by two workers; and with a single worker a
\* click record is given to the persistence port only when the processing
\* of every event accepted earlier is over.
C27_QueueOrder ==
    [][/\ \A k \in 1..(Len(clickChannel.buf) - 1) :
             clickChannel.buf[k].id < clickChannel.buf[k + 1].id
       /\ \A e \in EventIds :
             hist'[e].receives > hist[e].receives =>
                 /\ clickChannel.buf # <<>>
                 /\ e = clickChannel.buf[1].id
                 /\ clickChannel'.buf = Tail(clickChannel.buf)
                 /\ \A d \in Accepted : d < e => hist[d].receives = 1
       /\ \A w \in Workers :
             /\ (held[w] = NoEvent) <=> (pc[w] \in {"none", "select", "exited"})
             /\ held[w] # NoEvent =>
                    /\ hist[held[w].id].outcome = "none"
                    /\ \A v \in Workers \ {w} : held[v] # held[w]
             /\ (held'[w] # held[w] /\ held'[w] # NoEvent) =>
                    /\ held[w] = NoEvent
                    /\ pc[w] = "select"
             /\ (held'[w] # held[w] /\ held[w] # NoEvent) =>
                    /\ held'[w] = NoEvent
                    /\ pc'[w] = "select"
                    /\ hist'[held[w].id].outcome # "none"
       /\ workerCount = 1 =>
             \A e \in EventIds :
                 hist'[e].attempts > hist[e].attempts =>
                     \A d \in Accepted : d < e => hist[d].outcome # "none"
      ]_vars

\* with more than one worker, the second of two accepted events has been
\* persisted while the first, received before it, is in a backoff sleep
C27_Witness ==
    /\ workerCount > 1
    /\ \E d \in Accepted, e \in Accepted, w \in Workers :
          /\ d < e
          /\ hist[e].outcome = "persisted"
          /\ held[w].id = d
          /\ pc[w] = "sleep"
          /\ hist[d].succ = 0

(* ---- C28 -----------------------------------------------------------------*)
\* C28: while a worker is in a backoff sleep or waits for the persistence
\* port to return, every other worker can take its next step (receive the
\* oldest queued event if it is at its select and the channel is not empty,
\* have its repository call return, wake from its own sleep), and a
\* RecordClick call can be made and returns in that one step, the event
\* being enqueued or dropped or the context's error returned.
C28_WaitBlocksOneWorker ==
    \A w \in Workers :
        pc[w] \in {"persist", "sleep"} =>
            /\ \A v \in Workers \ {w} :
                  /\ (pc[v] = "select" /\ clickChannel.buf # <<>>) =>
                        ENABLED WorkerReceive(v)
                  /\ pc[v] = "lookup" => ENABLED LookupReturn(v, FALSE)
                  /\ (pc[v] = "lookup" /\ ctxDone = "live") =>
                        ENABLED LookupReturn(v, TRUE)
                  /\ pc[v] = "persist" => ENABLED PersistReturn(v, FALSE)
                  /\ (pc[v] = "persist" /\ ctxDone = "live") =>
                        ENABLED PersistReturn(v, TRUE)
                  /\ pc[v] = "sleep" => ENABLED BackoffWake(v)
            /\ nextId < MaxEvents =>
                  /\ ENABLED RecordClick(CodeOf(nextId + 1), TRUE)
                  /\ ENABLED RecordClick(CodeOf(nextId + 1), FALSE)

\* while one worker waits for the persistence port to return from the first
\* attempt for an event, another worker has received and persisted an event
\* accepted later
C28_Witness ==
    \E w \in Workers, e \in Accepted :
        /\ pc[w] = "persist"
        /\ hist[held[w].id].attempts = 1
        /\ held[w].id < e
        /\ hist[e].outcome = "persisted"

(* ---- C29 -----------------------------------------------------------------*)
\* how the processing of an event has ended, h being its history then: by
\* a failed lookup, by a successful persistence attempt, or by maxRetries
\* failed attempts
EndedInBudget(h) ==
    \/ h.outcome = "lookup_failed" /\ h.lookup = "err" /\ h.attempts = 0
    \/ /\ h.outcome = "persisted"
       /\ h.succ = 1
       /\ h.attempts = h.fails + 1
       /\ h.err = "nil"
    \/ /\ h.outcome = "exhausted"
       /\ h.succ = 0
       /\ h.attempts = maxRetries
       /\ h.fails = maxRetries

\* C29 as stated: the processing of an event ends only by a lookup
\* failure, a successful attempt or the exhaustion of the maxRetries
\* attempts, and no call of a repository is given a deadline that has
\* passed or returns the error of a deadline.
C29_Original ==
    /\ \A e \in Called :
           /\ hist[e].outcome # "none" => EndedInBudget(hist[e])
           /\ hist[e].cut = 0
    /\ \A w \in Workers : ~expired[w]

\* C29, amended: the processing of an event ends only by a lookup failure,
\* a successful attempt or the exhaustion of the maxRetries attempts; the
\* lookup and every attempt are given one context whose deadline is five
\* seconds after the processing began: the passing of the deadline ends
\* neither the processing nor a backoff sleep, and from then on every call
\* of a repository for the event returns the deadline's error and none
\* succeeds.
C29_DeadlineFailsCalls ==
    [][\A w \in Workers :
          LET e == held[w].id IN
          /\ (held[w] # NoEvent /\ held'[w] = NoEvent) =>
                EndedInBudget(hist'[e])
          /\ (expired'[w] /\ ~expired[w]) =>
                /\ pc[w] \in {"lookup", "persist", "sleep"}
                /\ pc' = pc /\ held' = held /\ hist' = hist
                /\ attempt' = attempt
          /\ (expired[w] /\ pc[w] \in {"lookup", "persist"}
                /\ hist'[e] # hist[e]) =>
                /\ hist'[e].err = "deadline_exceeded"
                /\ hist'[e].cut = hist[e].cut + 1
                /\ hist'[e].succ = 0
                /\ hist'[e].outcome # "persisted"
          /\ (expired[w] /\ ~expired'[w]) => held'[w] = NoEvent
      ]_vars

\* the first attempt for an event failed by itself, the deadline passed,
\* the two attempts left returned the deadline's error, and the processing
\* ended by exhaustion
C29_Witness ==
    \E e \in Accepted :
        /\ hist[e].outcome = "exhausted"
        /\ hist[e].fails = maxRetries
        /\ hist[e].cut = maxRetries - 1
        /\ hist[e].err = "deadline_exceeded"

(* ---- C30 -----------------------------------------------------------------*)
\* C30: an event is received, and its link id looked up, at most once, and
\* the result of the lookup stays; the first persistence attempt is given
\* the record made of the event's short code, the link id of that code and
\* the instant at which the lookup returned and the attempt began, which
\* is not before the submission; every later attempt is given that record
\* again, and the worker's record is not changed while the worker holds
\* the event.
C30_OneRecordPerEvent ==
    [][/\ \A e \in EventIds :
            LET h == hist[e]
                rec == Click(LinkIDOf(CodeOf(e)), CodeOf(e), now)
            IN  /\ hist'[e].receives <= 1
                /\ h.lookup # "none" => hist'[e].lookup = h.lookup
                /\ (h.lookup = "none" /\ hist'[e].lookup = "ok") =>
                        /\ hist'[e].attempts = 1
                        /\ hist'[e].records = {rec}
                        /\ rec.ClickedAt >= h.at
                /\ hist'[e].lookup # "ok" =>
                        hist'[e].attempts = 0 /\ hist'[e].records = {}
                /\ h.attempts >= 1 => hist'[e].records = h.records
       /\ \A w \in Workers :
            /\ pc[w] \in {"persist", "sleep"} =>
                    /\ hist[held[w].id].records = {click[w]}
                    /\ click'[w] = click[w] \/ held'[w] = NoEvent
            /\ pc[w] \notin {"persist", "sleep"} => click[w] = NoClick
      ]_vars

\* all the attempts for an event have been made, with the one record whose
\* timestamp is later than the submission of the event
C30_Witness ==
    \E e \in Accepted :
        /\ hist[e].attempts = maxRetries
        /\ \E r \in hist[e].records :
                /\ hist[e].records = {r}
                /\ r.ClickedAt > hist[e].at
                /\ r.LinkID = LinkIDOf(CodeOf(e))
                /\ r.ShortCode = CodeOf(e)

(* ---- C31 -----------------------------------------------------------------*)
\* C31: the lastSeen of a key never decreases: the value a step leaves in
\* the map for a key is at least the value last written for that key, be
\* the key's visitor the one it was, or a new one made after a cleanup
\* pass had deleted the key; and it is never later than the clock.
C31_LastSeenMonotonic ==
    [][\A k \in DOMAIN visitors' :
          /\ k \in DOMAIN unswept =>
                visitors'[k].lastSeen >= unswept[k].lastSeen
          /\ k \in DOMAIN visitors =>
                visitors'[k].lastSeen >= visitors[k].lastSeen
          /\ visitors'[k].lastSeen <= now'
          /\ visitors'[k].lastSeen = unswept'[k].lastSeen
      ]_vars

\* a key deleted by a cleanup pass at this instant has a visitor again, and
\* requests for it went through the limiter both before and after
C31_Witness ==
    \E k \in swept :
        /\ k \in DOMAIN visitors
        /\ visitors[k].lastSeen = now
        /\ unswept[k].limiter.last < now
        /\ inflight = EmptyBag
        /\ resp.status = 200

(* ---- C32 -----------------------------------------------------------------*)
\* C32: the getLimiter call of a request, which comes before its check,
\* leaves the key's lastSeen at the current time; the check, allowed or
\* refused, leaves the visitors as they are; and a cleanup pass keeps every
\* key seen within 3 x CleanupInterval, the latest check on its bucket
\* refused or not.
C32_EveryCheckTouches ==
    [][/\ \A k \in Keys :
            Entered(k) =>
                /\ k \in DOMAIN visitors'
                /\ visitors'[k].lastSeen = now
                /\ \E q \in BagToSet(inflight') :
                        q.key = k /\ q.lim = visitors'[k].limiter
       /\ \A r \in InFlightReqs : Checked(r) => visitors' = visitors
       /\ Swept =>
            \A k \in DOMAIN visitors :
                now - visitors[k].lastSeen <= 3 * config.CleanupInterval =>
                    /\ k \in DOMAIN visitors'
                    /\ visitors'[k] = visitors[k]
      ]_vars

\* a cleanup pass has run at this instant and has kept a key whose bucket
\* refused its latest check, made at an earlier instant after the first
C32_Witness ==
    /\ now > 0
    /\ now % config.CleanupInterval = 0
    /\ tickerC = 0
    /\ \E k \in DOMAIN visitors :
          /\ track[visitors[k].limiter].phase = "rejected"
          /\ visitors[k].lastSeen > 0
          /\ visitors[k].lastSeen < now
          /\ resp.status = 429

(* ---- C33 -----------------------------------------------------------------*)
Rejected == {e \in Called : hist[e].result = "ctx_err"}

Persisted == {e \in Called : hist[e].outcome = "persisted"}

Discarded == {e \in Called : hist[e].outcome \in {"lookup_failed", "exhausted"}}

\* C33: every RecordClick call made has returned accepted, dropped or the
\* context's error, and the three counts add up to the calls; every
\* accepted event is in exactly one place (in the channel, once; held by
\* one worker; persisted; discarded) and no other event is in any.  What
\* a call has returned is not changed by any later step.
C33_EventConservation ==
    /\ [](/\ Called = Accepted \cup Dropped \cup Rejected
          /\ nextId = Cardinality(Accepted) + Cardinality(Dropped)
                          + Cardinality(Rejected)
          /\ Accepted = Queued \cup InFlight \cup Persisted \cup Discarded
          /\ Cardinality(Accepted) =
                  Len(clickChannel.buf)
                  + Cardinality({w \in Workers : held[w] # NoEvent})
                  + Cardinality(Persisted) + Cardinality(Discarded)
          /\ \A e \in EventIds \ Accepted :
                  /\ hist[e].receives = 0
                  /\ hist[e].outcome = "none")
    /\ [][\A e \in Called : hist'[e].result = hist[e].result]_vars

\* of two events submitted, one was refused with the context's error and
\* the other is held by a worker that has made two attempts for it
C33_Witness ==
    \E d \in Rejected, e \in InFlight :
        /\ hist[e].attempts = 2
        /\ Queued = {}
        /\ Persisted = {}

(* ---- C34 -----------------------------------------------------------------*)
\* C34: time and again, unless the pool is not running, every event
\* accepted so far is persisted or discarded and none is left in the
\* channel; an outcome once reached stays, so every accepted event is in
\* the end persisted or discarded, unless Stop is called first.
C34_AcceptedEventsFinish ==
    /\ []<>(\/ caller # "running"
            \/ /\ Accepted \subseteq Persisted \cup Discarded
               /\ Queued = {})
    /\ [][\A e \in EventIds :
            hist[e].outcome # "none" => hist'[e].outcome = hist[e].outcome]_vars

\* the pool still runs, every event submitted was accepted, the first was
\* persisted at its last attempt and no event is left in the channel or
\* in a worker's hands
C34_Witness ==
    /\ caller = "running"
    /\ Accepted = EventIds
    /\ Queued = {}
    /\ InFlight = {}
    /\ hist[1].outcome = "persisted"
    /\ hist[1].attempts = maxRetries

(* ---- C35 -----------------------------------------------------------------*)
\* C35: a Stop that was called returns; between its cancellation and its
\* return only the events the workers held at the cancellation are given
\* persistence attempts and sleeps, and no more attempts than maxRetries in
\* all; Stop called again on the stopped pool does not wait (the counter
\* is zero, the context cancelled) and leaves the channel, the workers,
\* the counter, the context and every event's history as they were.
C35_StopTerminates ==
    /\ (caller = "stopping") ~> (caller = "stopped")
    /\ [][caller = "stopping" =>
            /\ \A e \in EventIds :
                  hist'[e].attempts > hist[e].attempts =>
                      /\ e \in atCancel.inhand
                      /\ hist'[e].attempts <= maxRetries
            /\ \A w \in Workers :
                  (pc'[w] = "backoff" /\ pc[w] # "backoff") =>
                      held[w].id \in atCancel.inhand]_vars
    /\ [](caller = "stopped" => (wg = 0 /\ ctxDone = "cancelled"))
    /\ [][(caller = "stopped" /\
            CopiesIn(LogRec("info", "stopped", "", 0), logs')
              > CopiesIn(LogRec("info", "stopped", "", 0), logs)) =>
            UNCHANGED <<clickChannel, workerCount, ctxDone, wg, pc, held,
                        attempt, caller, starts, nextId, hist>>]_vars

\* Stop has returned and was called a second time; an event a worker held
\* at the cancellation was given all its attempts, one at least after the
\* cancellation
C35_Witness ==
    /\ caller = "stopped"
    /\ starts = 1
    /\ CopiesIn(LogRec("info", "stopped", "", 0), logs) = 2
    /\ \E e \in atCancel.inhand :
          /\ hist[e].outcome = "exhausted"
          /\ hist[e].attempts = maxRetries
          /\ hist[e].err = "canceled"

(* ---- C36 -----------------------------------------------------------------*)
\* C36 as stated: a RecordClick call made with a cancelled caller context
\* returns the context's error and leaves the channel and the log as they
\* were, whatever the occupancy of the channel.
C36_Original ==
    [][(IsSubmit /\ lastDone')
        => /\ hist'[nextId'].result = "ctx_err"
           /\ clickChannel' = clickChannel
           /\ logs' = logs
      ]_vars

\* C36 amended: a RecordClick call made with a cancelled caller context
\* never takes the default case, so it writes no record; with the channel
\* full it returns the context's error and leaves the channel as it was;
\* with a free slot the select has two ready cases, and the call either
\* returns the context's error, the channel unchanged, or enqueues the
\* event and returns nil.
C36_CancelledSubmit ==
    [][(IsSubmit /\ lastDone')
        => LET r == hist'[nextId'].result IN
           /\ logs' = logs
           /\ r \in {"ctx_err", "accepted"}
           /\ r = "ctx_err" => clickChannel' = clickChannel
           /\ r = "accepted" =>
                 /\ SendReady(clickChannel)
                 /\ clickChannel' = Enqueue(clickChannel, NewEvent)
           /\ ~SendReady(clickChannel) => r = "ctx_err"
      ]_vars

\* the pool runs, the first call filled the channel, and the second, made
\* with a cancelled context on the full channel, returned the error
C36_Witness ==
    /\ caller = "running"
    /\ nextId = 2
    /\ lastDone
    /\ hist[1].result = "accepted"
    /\ hist[2].result = "ctx_err"
    /\ Queued = {1}
    /\ ~SendReady(clickChannel)

(* ---- C37 -----------------------------------------------------------------*)
\* C37: no event is held by two workers and only the workerCount workers
\* that Start launches hold one, so at most workerCount events are in
\* flight; the channel holds at most its capacity; hence the accepted
\* events neither persisted nor discarded, each of them in the channel or
\* in a worker's hands, number at most capacity + workerCount.  Neither
\* workerCount nor the capacity changes after construction.
C37_BoundedPending ==
    /\ [](LET busy    == {w \in Workers : held[w] # NoEvent}
              Pending == Accepted \ (Persisted \cup Discarded)
          IN  /\ \A v, w \in busy : v # w => held[v].id # held[w].id
              /\ busy \subseteq 1..workerCount
              /\ Cardinality(InFlight) <= workerCount
              /\ Len(clickChannel.buf) <= clickChannel.cap
              /\ Pending \subseteq Queued \cup InFlight
              /\ Cardinality(Pending) <= clickChannel.cap + workerCount)
    /\ [][/\ workerCount' = workerCount
          /\ clickChannel'.cap = clickChannel.cap]_vars

\* a pool of one worker and a channel of one slot: the worker holds the
\* first event and the second fills the channel, so that the pending
\* events number capacity + workerCount
C37_Witness ==
    /\ workerCount = 1
    /\ clickChannel.cap = 1
    /\ caller = "running"
    /\ InFlight = {1}
    /\ Queued = {2}
    /\ hist[1].outcome = "none"

(* ---- C38 -----------------------------------------------------------------*)
\* C38: neither half of Stop touches the channel, and on the stopped pool
\* the channel only grows: the events in it stay, in their order, and a
\* RecordClick call with a live context appends its event while a slot is
\* free.  Start on the stopped pool makes the context live again, leaves
\* the channel as it is and launches workerCount workers, all at their
\* select, the counter at workerCount; and every event Start found in the
\* channel is in the end persisted or discarded, unless Stop is called
\* first.
C38_RestartProcessesLeftovers ==
    /\ [][((caller' # caller /\ caller' \in {"stopping", "stopped"})
             \/ (caller = "stopped" /\ caller' = "stopped"))
           => /\ Len(clickChannel'.buf) >= Len(clickChannel.buf)
              /\ SubSeq(clickChannel'.buf, 1, Len(clickChannel.buf))
                    = clickChannel.buf
              /\ (IsSubmit /\ ~lastDone' /\ SendReady(clickChannel))
                    => clickChannel' = Enqueue(clickChannel, NewEvent)]_vars
    /\ [][(caller = "stopped" /\ caller' = "running")
           => /\ clickChannel' = clickChannel
              /\ ctxDone' = "live"
              /\ wg = 0
              /\ wg' = workerCount
              /\ {w \in Workers : pc'[w] = "select"} = 1..workerCount
              /\ \A w \in 1..workerCount : pc[w] = "exited"
              /\ \A w \in Workers : held'[w] = NoEvent
              /\ atCancel'.leftover = Queued]_vars
    /\ (caller = "running" /\ starts > 1)
          ~> (\/ atCancel.leftover \subseteq Persisted \cup Discarded
              \/ caller # "running")

\* the pool was stopped and started again, and an event the second Start
\* found in the channel has been persisted since
C38_Witness ==
    /\ starts = 2
    /\ caller = "running"
    /\ \E e \in atCancel.leftover :
          /\ hist[e].outcome = "persisted"
          /\ hist[e].receives = 1

(* ---- C39 -----------------------------------------------------------------*)
\* C39: every admission check is decided as the limiter whose visitors
\* cleanup never deletes would decide it: the bucket of the key, created
\* at the first check on the key and charged by every allowed one since,
\* allows it or refuses it as the limiter the request holds does.
C39_EvictionTransparent ==
    [][\A r \in InFlightReqs :
          Checked(r) =>
              (Allow(limiters[r.lim], now).ok
                <=> Allow(unswept[r.key].limiter, now).ok)
      ]_vars

(* ---- C40 -----------------------------------------------------------------*)
\* C40 as stated: with a pass of cleanup at every tick of the ticker, a
\* pass deletes every visitor idle for more than 3 x CleanupInterval, and
\* no visitor in the map is idle for 4 x CleanupInterval or more.
C40_Original ==
    /\ [][Swept =>
            \A k \in DOMAIN visitors :
                now - visitors[k].lastSeen > 3 * config.CleanupInterval
                    => k \notin DOMAIN visitors']_vars
    /\ [](\A k \in DOMAIN visitors :
            now - visitors[k].lastSeen < 4 * config.CleanupInterval)

\* C40 amended: with a pass of cleanup at every tick of the ticker, a pass
\* deletes the visitors idle for more than 3 x CleanupInterval and no
\* other, and a visitor it deletes is idle for 4 x CleanupInterval at
\* most, the pass before having left it.  A visitor last touched at the
\* instant of a tick is idle for exactly 3 x CleanupInterval at the third
\* pass after and survives it: no visitor in the map is idle for more
\* than 4 x CleanupInterval, one is idle for that long only while the
\* pass of that instant is still to run, and after a pass none is idle
\* for more than 3 x CleanupInterval and the time since the pass.
C40_BoundedEviction ==
    /\ [][Swept =>
            \A k \in DOMAIN visitors :
                LET idle == now - visitors[k].lastSeen
                IN  /\ idle > 3 * config.CleanupInterval
                        <=> k \notin DOMAIN visitors'
                    /\ idle <= 4 * config.CleanupInterval]_vars
    /\ [](\A k \in DOMAIN visitors :
            LET idle == now - visitors[k].lastSeen
            IN  /\ idle <= 4 * config.CleanupInterval
                /\ idle = 4 * config.CleanupInterval => tickerC = 1
                /\ tickerC = 0 =>
                      idle <= 3 * config.CleanupInterval
                                + (now % config.CleanupInterval))

\* the pass of this instant has deleted a visitor last touched exactly
\* 4 x CleanupInterval ago, at the instant of a tick of a ticker of two
\* ticks
C40_Witness ==
    /\ config.CleanupInterval = 2
    /\ tickerC = 0
    /\ \E k \in swept :
          /\ k \notin DOMAIN visitors
          /\ now - unswept[k].lastSeen = 4 * config.CleanupInterval

====
